---- MODULE Spec2Model ----
(***************************************************************************)
(* Workout Tracker: the Day Workout View's block grouping and card         *)
(* rendering, the Mock Adapter over MOCK_DB, the Cardio View's new-log     *)
(* form and log list, and the icon generator's renderPadded.               *)
(*                                                                         *)
(* The repository holds two variants of the application file:              *)
(*   src/unnamed/part_000  (variant "part_000")                            *)
(*   src/src/App.tsx       (variant "App")                                 *)
(* Where the two differ, the model has one definition per variant and the  *)
(* variable `variant` says which file is the one built.                    *)
(***************************************************************************)
EXTENDS Integers, Sequences, FiniteSets, TLC

VARIABLES
    variant,      \* which application file is built: "part_000" or "App"
    plan,         \* DayWorkoutView state `plan`
    exMap,        \* DayWorkoutView state `exMap`
    blocks,       \* DayWorkoutView `blocks` (the useMemo result)
    cards,        \* what the Block components render, one list per block
    viewPc,       \* "idle"; "loaded": plan/exMap stored; "rendered": blocks and cards derived
    MOCK_DB,      \* the Mock Adapter's process-wide collections
    trace,        \* the adapter calls made so far: operation, argument, resolved value
    rows,         \* CardioView state `rows`
    logs,         \* CardioView state `logs`
    newLog,       \* CardioView state `newLog`, the new-log form record
    cardioStatus, \* CardioView state `status`
    statusTimers, \* pending setTimeout(() => setStatus(""), 1500) of the CardioView
    logList,      \* the "Cardio logs (recent)" items as last rendered
    ev,           \* the input event last handled by the form: field and e.target.value
    iconJob,      \* gen-icons: the job handed to renderPadded: size and maskable
    iconOut,      \* gen-icons: the canvas and the placement renderPadded composed
    iconPc,       \* gen-icons: "call" before renderPadded ran, "done" after
    localStorage, \* the browser's localStorage: key "wt_sheet_id" when one is stored
    sid,          \* part_000 App state `sid`
    adapterName,  \* App state `adapterName`: "mock" or "sheets"
    sheetIdInput, \* SettingsView state `sheetIdInput`
    msgListeners, \* onMsg listeners registered on window for "message"
    popupsOpen,   \* provisioning popups opened and not closed
    lastAlert,    \* text of the last alert(...) shown
    settingsEv,   \* the Settings handler that ran last, and whether window.open was blocked
    settingsLog,  \* listener registrations and message events, in order
    selectedDay,  \* DayWorkoutView state `selectedDay`
    aiQuery,      \* DayWorkoutView state `aiQuery`
    aiBusy,       \* DayWorkoutView state `aiBusy`
    aiPc,         \* addAlternativeExercise: "idle", or the call it awaits
    aiEx,         \* addAlternativeExercise: `ex`, the exercise the lookup returned
    aiAddRes,     \* addAlternativeExercise: `addRes.exercise_id`
    sheet,        \* the spreadsheet behind the bridge: its Exercises and WorkoutPlan rows
    flowLog,      \* one record per addAlternativeExercise run: what it wrote, how it ended
    tab,          \* App state `tab`
    cardioRefetches, \* CardioView.save: listCardio requests of save() not yet answered
    loading,      \* DayWorkoutView state `loading`
    fetches,      \* getPlanForDay requests of the plan effect not yet answered, oldest first
    dayStatus,    \* DayWorkoutView state `status`
    dayTimers,    \* pending setTimeout(() => setStatus(""), 1500) of onSave
    daySaves,     \* saveStrengthLog requests of onSave not yet answered
    dayEv,        \* the DayWorkoutView handler or callback that ran last, and what it handled
    dayEvents     \* day selections and set saves so far

viewVars == <<plan, exMap, blocks, cards, viewPc>>
mockVars == <<MOCK_DB, trace>>
cardioVars == <<rows, logs, newLog, cardioStatus, statusTimers, logList, ev, cardioRefetches>>
iconVars == <<iconJob, iconOut, iconPc>>
settingsVars == <<localStorage, sid, adapterName, sheetIdInput, msgListeners, popupsOpen,
                  lastAlert, settingsEv, settingsLog, tab>>
flowVars == <<selectedDay, aiQuery, aiBusy, aiPc, aiEx, aiAddRes, sheet, flowLog>>
dayVars == <<loading, fetches, dayStatus, dayTimers, daySaves, dayEv, dayEvents>>
vars == <<variant, plan, exMap, blocks, cards, viewPc, MOCK_DB, trace,
          rows, logs, newLog, cardioStatus, statusTimers, logList, ev,
          iconJob, iconOut, iconPc,
          localStorage, sid, adapterName, sheetIdInput, msgListeners, popupsOpen,
          lastAlert, settingsEv, settingsLog,
          selectedDay, aiQuery, aiBusy, aiPc, aiEx, aiAddRes, sheet, flowLog,
          tab, cardioRefetches, loading, fetches, dayStatus, dayTimers, daySaves, dayEv,
          dayEvents>>

\* gen-icons: nothing composed yet
NoIcon ==
    [width |-> 0, height |-> 0, background |-> "", inner |-> 0, left |-> 0, top |-> 0]

\* no icon job is running
IconsIdle ==
    /\ iconJob = [size |-> 0, maskable |-> FALSE]
    /\ iconOut = NoIcon
    /\ iconPc = "idle"

(***************************************************************************)
(* JavaScript values                                                       *)
(***************************************************************************)
\* `undefined` for a string-typed optional field or a missing property.
Undefined == "<undefined>"

\* JavaScript truthiness of a string-or-undefined value.
Truthy(s) == s /= Undefined /\ s /= ""

\* a || b on string-or-undefined values.
OrElse(a, b) == IF Truthy(a) THEN a ELSE b

\* ToPropertyKey: obj[undefined] reads and writes the property "undefined".
PropertyKey(k) == IF k = Undefined THEN "undefined" ELSE k

\* obj[k] on a Record<string, T>: undefined when the property is missing.
Lookup(obj, k) ==
    IF PropertyKey(k) \in DOMAIN obj THEN obj[PropertyKey(k)] ELSE Undefined

\* obj[k] = v
Store(obj, k, v) ==
    [x \in (DOMAIN obj) \cup {PropertyKey(k)} |->
        IF x = PropertyKey(k) THEN v ELSE obj[x]]

EmptyObject == [x \in {} |-> Undefined]

Variants == {"part_000", "App"}

\* the values of `tab`: TabName in part_000, the button labels in App.tsx
Tabs ==
    IF variant = "App" THEN {"Daily Workout", "Cardio", "Settings"}
    ELSE {"daily", "cardio", "settings"}

\* useState("daily") / useState("Daily Workout")
DailyTab == IF variant = "App" THEN "Daily Workout" ELSE "daily"

\* the tab on which SettingsView is rendered
SettingsTab == IF variant = "App" THEN "Settings" ELSE "settings"

\* the Settings view is not mounted, nothing is stored, the mock backend is active
SettingsIdle ==
    /\ localStorage = EmptyObject
    /\ sid = <<>>
    /\ adapterName = "mock"
    /\ sheetIdInput = <<>>
    /\ msgListeners = 0
    /\ popupsOpen = 0
    /\ lastAlert = ""
    /\ settingsEv = [handler |-> "", blocked |-> FALSE]
    /\ settingsLog = <<>>
    /\ tab = DailyTab

\* placeholders of addAlternativeExercise's locals before they are assigned
NoExercise == [id |-> Undefined, name |-> "", default_reps |-> Undefined]

NoRow ==
    [day_id |-> "", block_order |-> 0, block_name |-> "", set_number |-> 0,
     exercise_id |-> Undefined, prescribed_reps |-> Undefined]

\* no "add via AI" flow has run, no day is selected, the spreadsheet is empty
FlowIdle ==
    /\ selectedDay = ""
    /\ aiQuery = <<>>
    /\ aiBusy = FALSE
    /\ aiPc = "idle"
    /\ aiEx = NoExercise
    /\ aiAddRes = Undefined
    /\ sheet = [exercises |-> <<>>, plan |-> <<>>]
    /\ flowLog = <<>>

\* placeholder of onSave's `log` before one is built
NoStrengthLog ==
    [date_iso |-> "", day_id |-> "", block_name |-> "", set_number |-> 0,
     exercise_id |-> "", reps_done |-> ""]

NoDayEvent == [handler |-> "", day |-> "", log |-> NoStrengthLog, called |-> FALSE]

\* DayWorkoutView as mounted: nothing loading, no status, nothing in flight
DayIdle ==
    /\ loading = FALSE
    /\ fetches = <<>>
    /\ dayStatus = ""
    /\ dayTimers = 0
    /\ daySaves = 0
    /\ dayEv = NoDayEvent
    /\ dayEvents = 0

(***************************************************************************)
(* Bounds and input domains                                                *)
(***************************************************************************)
\* longest plan the view is handed by a fetch
MaxPlanLen == 2
\* largest set_number of a plan row
MaxSet == 3

DayIds == {"Day 1", "Day 2"}

\* (block_name, block_order) of the input rows: the two seeded blocks in their
\* own order, and the Core Block also with the other block's order
BlockKeys ==
    {<<"Glute Strength Block", 1>>, <<"Core Block", 2>>, <<"Core Block", 1>>}

\* (exercise_id, prescribed_reps) of the input rows
ExercisePrescriptions ==
    {<<"ex_glute_bridge", Undefined>>, <<"ex_glute_bridge", "12">>,
     <<"ex_glute_bridge", "10">>, <<"ex_banded_deadbug", "">>}

\* PlanRow (day_name, tempo and notes are carried along by no operation modelled)
PlanRowInputs ==
    {[day_id |-> "Day 1", block_order |-> k[2], block_name |-> k[1],
      set_number |-> n, exercise_id |-> p[1], prescribed_reps |-> p[2]] :
        k \in BlockKeys, n \in 1..MaxSet, p \in ExercisePrescriptions}

SeqsUpTo(S, n) == UNION {[1..k -> S] : k \in 0..n}

PlanInputs == SeqsUpTo(PlanRowInputs, MaxPlanLen)

\* Exercise (equipment, type, thumbnail_url, yt_query, description are not modelled)
SeedGluteBridge ==
    [id |-> "ex_glute_bridge", name |-> "Weighted Glute Bridge", default_reps |-> "8 to 10"]
SeedDeadbug ==
    [id |-> "ex_banded_deadbug", name |-> "Banded Dead Bug (overhead weight)",
     default_reps |-> "6 each side"]

\* exercise maps a fetch can hand the view: keyed by the exercise's id
ExMapInputs ==
    { [k \in {"ex_glute_bridge", "ex_banded_deadbug"} |->
          IF k = "ex_glute_bridge" THEN SeedGluteBridge
          ELSE [SeedDeadbug EXCEPT !.default_reps = ""]],
      [k \in {"ex_glute_bridge"} |-> [SeedGluteBridge EXCEPT !.default_reps = Undefined]] }

(***************************************************************************)
(* DayWorkoutView: blocks (useMemo), Block, ExerciseCard                   *)
(***************************************************************************)
Max(a, b) == IF a >= b THEN a ELSE b

\* Set.prototype.add on an insertion-ordered Set
SetAdd(s, x) == IF \E i \in 1..Len(s) : s[i] = x THEN s ELSE Append(s, x)

\* index of the group keyed `key`, 0 when group[key] is missing
GroupIndex(group, key) ==
    IF \E i \in 1..Len(group) : group[i].name = key
    THEN CHOOSE i \in 1..Len(group) : group[i].name = key
    ELSE 0

\* GroupStep with `sets = row.set_number` in place of the running maximum
GroupStepLastSet(group, row) ==
    LET key == row.block_name
        g1 == IF GroupIndex(group, key) = 0
              THEN Append(group, [name |-> key, order |-> row.block_order, sets |-> 0,
                                  exercises |-> <<>>, prescribed |-> EmptyObject])
              ELSE group
        i == GroupIndex(g1, key)
    IN [g1 EXCEPT
          ![i].sets = row.set_number,
          ![i].exercises = SetAdd(g1[i].exercises, row.exercise_id),
          ![i].prescribed = IF Truthy(row.prescribed_reps)
                            THEN Store(g1[i].prescribed, row.exercise_id, row.prescribed_reps)
                            ELSE g1[i].prescribed]

\* one iteration of `for (const row of plan)`
GroupStep(group, row) ==
    LET key == row.block_name
        g1 == IF GroupIndex(group, key) = 0
              THEN Append(group, [name |-> key, order |-> row.block_order, sets |-> 0,
                                  exercises |-> <<>>, prescribed |-> EmptyObject])
              ELSE group
        i == GroupIndex(g1, key)
    IN [g1 EXCEPT
          ![i].sets = Max(g1[i].sets, row.set_number),
          ![i].exercises = SetAdd(g1[i].exercises, row.exercise_id),
          ![i].prescribed = IF Truthy(row.prescribed_reps)
                            THEN Store(g1[i].prescribed, row.exercise_id, row.prescribed_reps)
                            ELSE g1[i].prescribed]

RECURSIVE GroupRows(_, _)
GroupRows(group, rs) ==
    IF rs = <<>> THEN group
    ELSE GroupRows(GroupStep(group, Head(rs)), Tail(rs))

\* Array.prototype.sort with (a, b) => a[1].order - b[1].order: stable
RECURSIVE InsertByOrder(_, _)
InsertByOrder(sorted, e) ==
    IF sorted = <<>> THEN <<e>>
    ELSE IF e.order - Head(sorted).order < 0 THEN <<e>> \o sorted
    ELSE <<Head(sorted)>> \o InsertByOrder(Tail(sorted), e)

\* SortByOrder with the sort left out: the groups stay in insertion order
SortByOrderMissing(entries) == entries

RECURSIVE SortByOrder(_)
SortByOrder(entries) ==
    IF entries = <<>> THEN <<>>
    ELSE InsertByOrder(SortByOrder(SubSeq(entries, 1, Len(entries) - 1)),
                       entries[Len(entries)])

\* [...v.exercises].map((id) => exMap[id]).filter(Boolean)
ResolveExercises(ids, map) ==
    LET found == SelectSeq(ids, LAMBDA id : PropertyKey(id) \in DOMAIN map)
    IN [i \in 1..Len(found) |-> map[PropertyKey(found[i])]]

Blocks(rs, map) ==
    LET sorted == SortByOrder(GroupRows(<<>>, rs))
    IN [i \in 1..Len(sorted) |->
          [name |-> sorted[i].name,
           setCount |-> sorted[i].sets,
           exercises |-> ResolveExercises(sorted[i].exercises, map),
           prescribed |-> sorted[i].prescribed]]

\* PrescribedText with the exercise's default taking precedence over the override
PrescribedTextDefaultFirst(exercise, prescribedReps) ==
    OrElse(OrElse(exercise.default_reps, prescribedReps), "as assigned")

\* the "Prescribed:" line of a card
PrescribedText(exercise, prescribedReps) ==
    OrElse(OrElse(prescribedReps, exercise.default_reps), "as assigned")

ExerciseCard(exercise, setNumber, prescribedReps) ==
    [exercise |-> exercise, setNumber |-> setNumber,
     prescribed |-> PrescribedText(exercise, prescribedReps)]

\* the inner loop `for (const ex of exercises)` of one set
BlockSetRow(b, set) ==
    [j \in 1..Len(b.exercises) |->
        ExerciseCard(b.exercises[j], set, Lookup(b.prescribed, b.exercises[j].id))]

\* BlockFrom with `set < setCount` as the loop condition
RECURSIVE BlockFromExclusive(_, _)
BlockFromExclusive(b, set) ==
    IF set < b.setCount THEN BlockSetRow(b, set) \o BlockFromExclusive(b, set + 1) ELSE <<>>

\* the outer loop `for (let set = 1; set <= setCount; set++)`
RECURSIVE BlockFrom(_, _)
BlockFrom(b, set) ==
    IF set <= b.setCount THEN BlockSetRow(b, set) \o BlockFrom(b, set + 1) ELSE <<>>

Block(b) == BlockFrom(b, 1)

(***************************************************************************)
(* MOCK_DB and the Mock Adapter                                            *)
(***************************************************************************)
\* sets per seeded block: `for (let set = 1; set <= 3; set++)`
SeedSets == 3

SeedPlanRow(order, name, set, id, reps) ==
    [day_id |-> "Day 1", block_order |-> order, block_name |-> name,
     set_number |-> set, exercise_id |-> id, prescribed_reps |-> reps]

SeedDays == <<"Day 1", "Day 2", "Day 3", "Day 4">>

SeedCardioPlan == <<[day_id |-> "Day 2", activity |-> "Zone 2 Ride"]>>

MockSeed ==
    [exercises |-> [k \in {"ex_glute_bridge", "ex_banded_deadbug"} |->
                      IF k = "ex_glute_bridge" THEN SeedGluteBridge ELSE SeedDeadbug],
     plan |-> [i \in 1..SeedSets |->
                  SeedPlanRow(1, "Glute Strength Block", i, "ex_glute_bridge", "8 to 10")]
              \o [i \in 1..SeedSets |->
                  SeedPlanRow(2, "Core Block", i, "ex_banded_deadbug", "6 each side")],
     days |-> SeedDays,
     strengthLogs |-> <<>>,
     cardioPlan |-> SeedCardioPlan,
     cardioLogs |-> <<>>]

\* one entry of the trace
Entry(op, arg, result) == [op |-> op, arg |-> arg, result |-> result]

\* an adapter method's effect: the collections afterwards and the resolved value
Effect(db, result) == [db |-> db, result |-> result]

MockAdapter_listDays(db) == Effect(db, db.days)

\* MockAdapter_getPlanForDay filtering on the day's name in place of its id
MockAdapter_getPlanForDayWrongKey(db, day_id) ==
    Effect(db, [plan |-> SelectSeq(db.plan, LAMBDA p : p.block_name = day_id),
                exercises |-> db.exercises])

\* part_000: filter on String(p.day_id) === String(day_id)
MockAdapter_getPlanForDay(db, day_id) ==
    Effect(db, [plan |-> SelectSeq(db.plan, LAMBDA p : p.day_id = day_id),
                exercises |-> db.exercises])

\* (a, b) => a.block_order - b.block_order || a.set_number - b.set_number
ComparePlanRows(a, b) ==
    IF a.block_order - b.block_order /= 0
    THEN a.block_order - b.block_order
    ELSE a.set_number - b.set_number

\* Array.prototype.sort with ComparePlanRows: stable
RECURSIVE InsertPlanRow(_, _)
InsertPlanRow(sorted, r) ==
    IF sorted = <<>> THEN <<r>>
    ELSE IF ComparePlanRows(r, Head(sorted)) < 0 THEN <<r>> \o sorted
    ELSE <<Head(sorted)>> \o InsertPlanRow(Tail(sorted), r)

RECURSIVE SortPlanRows(_)
SortPlanRows(rs) ==
    IF rs = <<>> THEN <<>>
    ELSE InsertPlanRow(SortPlanRows(SubSeq(rs, 1, Len(rs) - 1)), rs[Len(rs)])

\* App.tsx: filter on p.day_id === day_id, then sort
App_MockAdapter_getPlanForDay(db, day_id) ==
    Effect(db, [plan |-> SortPlanRows(SelectSeq(db.plan, LAMBDA p : p.day_id = day_id)),
                exercises |-> db.exercises])

MockAdapter_listCardio(db) == Effect(db, [plan |-> db.cardioPlan, logs |-> db.cardioLogs])

MockAdapter_saveStrengthLog(db, log) ==
    Effect([db EXCEPT !.strengthLogs = Append(@, log)], [ok |-> TRUE])

\* saveCardioLog keeping only the newest log
MockAdapter_saveCardioLogNewestOnly(db, log) ==
    Effect([db EXCEPT !.cardioLogs = <<log>>], [ok |-> TRUE])

MockAdapter_saveCardioLog(db, log) ==
    Effect([db EXCEPT !.cardioLogs = Append(@, log)], [ok |-> TRUE])

\* part_000: MOCK_DB.exercises[ex.id] = ex; return { ok: true, exercise_id: ex.id }
MockAdapter_addExercise(db, ex, token) ==
    Effect([db EXCEPT !.exercises = Store(@, ex.id, ex)],
           [ok |-> TRUE, exercise_id |-> ex.id])

\* App_MockAdapter_addExercise storing under ex.id in place of the resolved id
App_MockAdapter_addExerciseOwnId(db, ex, token) ==
    LET id == OrElse(ex.id, token)
    IN Effect([db EXCEPT !.exercises = Store(@, ex.id, [ex EXCEPT !.id = id])],
              [ok |-> TRUE, exercise_id |-> id])

\* App.tsx: const id = ex.id || `ex_${Math.random().toString(36).slice(2, 10)}`;
\* `token` is the string the random expression yields
App_MockAdapter_addExercise(db, ex, token) ==
    LET id == OrElse(ex.id, token)
    IN Effect([db EXCEPT !.exercises = Store(@, id, [ex EXCEPT !.id = id])],
              [ok |-> TRUE, exercise_id |-> id])

MockAdapter_addPlanRow(db, row) ==
    Effect([db EXCEPT !.plan = Append(@, row)], [ok |-> TRUE])

\* the method of the application file that is built
GetPlanForDay(db, day_id) ==
    IF variant = "App" THEN App_MockAdapter_getPlanForDay(db, day_id)
    ELSE MockAdapter_getPlanForDay(db, day_id)

AddExercise(db, ex, token) ==
    IF variant = "App" THEN App_MockAdapter_addExercise(db, ex, token)
    ELSE MockAdapter_addExercise(db, ex, token)

(***************************************************************************)
(* GoogleSheetsAdapter: getJSON, postJSON and the response mapping         *)
(***************************************************************************)
\* A JSON value read off a response body: the pair of its type and its
\* content.  A key that the body does not carry reads as undefined.
JUndefined == <<"undefined", <<>>>>
JNull == <<"null", <<>>>>
JArray(items) == <<"array", items>>
JObject(obj) == <<"object", obj>>
JString(str) == <<"string", str>>
JBoolean(b) == <<"boolean", b>>

\* a string-or-undefined field as a JSON value
ToJ(str) == IF str = Undefined THEN JUndefined ELSE JString(str)

JTruthy(x) ==
    CASE x[1] \in {"undefined", "null"} -> FALSE
      [] x[1] = "string" -> x[2] /= ""
      [] x[1] = "boolean" -> x[2]
      [] OTHER -> TRUE

\* a || b
JOr(a, b) == IF JTruthy(a) THEN a ELSE b

\* a ?? b
JCoalesce(a, b) == IF a[1] \in {"undefined", "null"} THEN b ELSE a

\* a response body that parsed as a JSON object, by the keys the adapter reads
NoBody ==
    [days |-> JUndefined, plan |-> JUndefined, exercises |-> JUndefined,
     cardio |-> JUndefined, logs |-> JUndefined, ok |-> JUndefined,
     exercise_id |-> JUndefined]

\* what fetch yields: net = the request got a response at all, ok = r.ok (the
\* status is a success status), json = the body text parses as JSON
NetworkError == [net |-> FALSE, ok |-> FALSE, json |-> FALSE, body |-> NoBody]

Responses(bodies) ==
    {NetworkError}
    \cup [net : {TRUE}, ok : BOOLEAN, json : {FALSE}, body : {NoBody}]
    \cup [net : {TRUE}, ok : BOOLEAN, json : {TRUE}, body : bodies]

\* the way an awaited call ends: rejected (thrown), or resolved with a value
Rejected == [rejected |-> TRUE, value |-> NoBody]
Resolved(value) == [rejected |-> FALSE, value |-> value]

\* part_000 getJSON: await fetch; JSON.parse(await r.text()), which throws on
\* a body that is not JSON.  r.ok is not looked at.
getJSON(resp) ==
    IF resp.net /\ resp.json THEN Resolved(resp.body) ELSE Rejected

\* App.tsx getJSON: if (!r.ok) throw; return r.json()
App_getJSON(resp) ==
    IF resp.net /\ resp.ok /\ resp.json THEN Resolved(resp.body) ELSE Rejected

\* part_000 postJSON: await fetch; return r.json().  r.ok is not looked at.
postJSON(resp) ==
    IF resp.net /\ resp.json THEN Resolved(resp.body) ELSE Rejected

\* App.tsx postJSON: if (!r.ok) throw; return r.json()
App_postJSON(resp) ==
    IF resp.net /\ resp.ok /\ resp.json THEN Resolved(resp.body) ELSE Rejected

\* { id: String(d.day_id), name: d.day_name }
MapDay(d) == [id |-> d.day_id, name |-> d.day_name]

\* listDays, the same in both files: j.days.map(...) throws when j.days is
\* no array
GoogleSheetsAdapter_listDays(j) ==
    IF j.rejected \/ j.value.days[1] /= "array" THEN Rejected
    ELSE Resolved([days |-> JArray([i \in 1..Len(j.value.days[2]) |->
                                       MapDay(j.value.days[2][i])])])

\* part_000: plan: j.plan || [], exercises: j.exercises || {}
GoogleSheetsAdapter_getPlanForDay(j) ==
    IF j.rejected THEN Rejected
    ELSE Resolved([plan |-> JOr(j.value.plan, JArray(<<>>)),
                   exercises |-> JOr(j.value.exercises, JObject(EmptyObject))])

\* App.tsx: plan: j.plan, exercises: j.exercises
App_GoogleSheetsAdapter_getPlanForDay(j) ==
    IF j.rejected THEN Rejected
    ELSE Resolved([plan |-> j.value.plan, exercises |-> j.value.exercises])

\* part_000: plan: j.plan || j.cardio || [], logs: j.logs || []
GoogleSheetsAdapter_listCardio(j) ==
    IF j.rejected THEN Rejected
    ELSE Resolved([plan |-> JOr(JOr(j.value.plan, j.value.cardio), JArray(<<>>)),
                   logs |-> JOr(j.value.logs, JArray(<<>>))])

\* App.tsx: plan = j.cardio ?? [], logs = j.logs ?? []
App_GoogleSheetsAdapter_listCardio(j) ==
    IF j.rejected THEN Rejected
    ELSE Resolved([plan |-> JCoalesce(j.value.cardio, JArray(<<>>)),
                   logs |-> JCoalesce(j.value.logs, JArray(<<>>))])

\* part_000 writes: return await postJSON(action, payload): the parsed body
GoogleSheetsAdapter_write(j) ==
    IF j.rejected THEN Rejected
    ELSE Resolved([ok |-> j.value.ok, exercise_id |-> j.value.exercise_id])

\* App.tsx saveStrengthLog, saveCardioLog, addPlanRow:
\* await postJSON(action, payload); return { ok: true }
App_GoogleSheetsAdapter_write(j) ==
    IF j.rejected THEN Rejected
    ELSE Resolved([ok |-> JBoolean(TRUE), exercise_id |-> JUndefined])

\* part_000 addExercise: return await postJSON("addExercise", ex)
GoogleSheetsAdapter_addExercise(j, ex) == GoogleSheetsAdapter_write(j)

\* App.tsx addExercise: await postJSON("addExercise", ex);
\* return { ok: true, exercise_id: ex.id }
App_GoogleSheetsAdapter_addExercise(j, ex) ==
    IF j.rejected THEN Rejected
    ELSE Resolved([ok |-> JBoolean(TRUE), exercise_id |-> ToJ(ex.id)])

\* the adapter of the application file that is built, handed the response
\* its request receives
Sheets_listDays(resp) ==
    GoogleSheetsAdapter_listDays(IF variant = "App" THEN App_getJSON(resp) ELSE getJSON(resp))

Sheets_getPlanForDay(resp) ==
    IF variant = "App" THEN App_GoogleSheetsAdapter_getPlanForDay(App_getJSON(resp))
    ELSE GoogleSheetsAdapter_getPlanForDay(getJSON(resp))

Sheets_listCardio(resp) ==
    IF variant = "App" THEN App_GoogleSheetsAdapter_listCardio(App_getJSON(resp))
    ELSE GoogleSheetsAdapter_listCardio(getJSON(resp))

Sheets_write(resp) ==
    IF variant = "App" THEN App_GoogleSheetsAdapter_write(App_postJSON(resp))
    ELSE GoogleSheetsAdapter_write(postJSON(resp))

Sheets_addExercise(resp, ex) ==
    IF variant = "App" THEN App_GoogleSheetsAdapter_addExercise(App_postJSON(resp), ex)
    ELSE GoogleSheetsAdapter_addExercise(postJSON(resp), ex)

(***************************************************************************)
(* CardioView                                                              *)
(***************************************************************************)
\* new Date().toISOString().slice(0, 10) at component creation
Today == "2025-08-20"

\* no input event handled yet
NoEvent == [field |-> "", value |-> <<>>]

\* useState initial values of the CardioView
CardioViewInit ==
    /\ rows = <<>>
    /\ logs = <<>>
    /\ newLog = [date_iso |-> Today, activity |-> "Ride", duration_min |-> <<>>,
                 distance_km |-> <<>>, avg_hr |-> <<>>, rpe |-> <<>>]
    /\ cardioStatus = ""
    /\ statusTimers = 0
    /\ logList = <<>>
    /\ ev = NoEvent
    /\ cardioRefetches = 0

\* Array.prototype.reverse on a copy
Reverse(s) == [i \in 1..Len(s) |-> s[Len(s) + 1 - i]]

\* CardioLogItems listing the logs in the order returned
CardioLogItemsInOrder(ls) == ls

\* logs.slice().reverse().map(...): the items of "Cardio logs (recent)"
CardioLogItems(ls) == Reverse(ls)

(* Number(text), for texts over digits, space, "+", "-" and letters.  A text *)
(* is a sequence of one-character strings.  The result is [nan, val].        *)
Digits == {"0", "1", "2", "3", "4", "5", "6", "7", "8", "9"}

DigitValue(c) ==
    CASE c = "0" -> 0 [] c = "1" -> 1 [] c = "2" -> 2 [] c = "3" -> 3 [] c = "4" -> 4
      [] c = "5" -> 5 [] c = "6" -> 6 [] c = "7" -> 7 [] c = "8" -> 8 [] c = "9" -> 9

RECURSIVE TrimLeft(_)
TrimLeft(t) == IF t /= <<>> /\ Head(t) = " " THEN TrimLeft(Tail(t)) ELSE t

RECURSIVE TrimRight(_)
TrimRight(t) ==
    IF t /= <<>> /\ t[Len(t)] = " " THEN TrimRight(SubSeq(t, 1, Len(t) - 1)) ELSE t

RECURSIVE DecimalValue(_)
DecimalValue(t) ==
    IF t = <<>> THEN 0
    ELSE 10 * DecimalValue(SubSeq(t, 1, Len(t) - 1)) + DigitValue(t[Len(t)])

NaN == [nan |-> TRUE, val |-> 0]

Num(n) == [nan |-> FALSE, val |-> n]

UnsignedNumber(t) ==
    IF t /= <<>> /\ \A i \in 1..Len(t) : t[i] \in Digits THEN Num(DecimalValue(t)) ELSE NaN

Number(text) ==
    LET t == TrimRight(TrimLeft(text))
    IN IF t = <<>> THEN Num(0)
       ELSE IF Head(t) = "-"
            THEN LET u == UnsignedNumber(Tail(t)) IN IF u.nan THEN NaN ELSE Num(0 - u.val)
       ELSE IF Head(t) = "+" THEN UnsignedNumber(Tail(t))
       ELSE UnsignedNumber(t)

\* NumberOrUndefined keeping a parsed zero
NumberOrZero(text) ==
    LET n == Number(text) IN IF n.nan THEN <<>> ELSE <<n.val>>

\* Number(e.target.value) || undefined: NaN and 0 are falsy.
\* An optional number is <<>> when absent and <<n>> when n.
NumberOrUndefined(text) ==
    LET n == Number(text) IN IF n.nan \/ n.val = 0 THEN <<>> ELSE <<n.val>>

NumericFields == {"duration_min", "distance_km", "avg_hr", "rpe"}

\* texts typed into a numeric field
NumericTexts ==
    {<<>>, <<"0">>, <<"4", "5">>, <<"a">>, <<"4", "a">>, <<"-", "5">>, <<" ", "7">>, <<"0", "0">>}

DateInputs == {Today, "2025-08-21"}

ActivityInputs == {"Ride", "Run"}

\* what an edit of the form leaves alone
formFrame ==
    <<variant, viewVars, mockVars, iconVars, settingsVars, flowVars, dayVars, rows, logs, cardioStatus,
      statusTimers, cardioRefetches>>

\* onChange of the date input: setNewLog({ ...newLog, date_iso: e.target.value })
EditDate ==
    \E d \in DateInputs :
        /\ newLog' = [newLog EXCEPT !.date_iso = d]
        /\ ev' = [field |-> "date_iso", value |-> <<d>>]
        /\ logList' = CardioLogItems(logs)
        /\ UNCHANGED formFrame

\* onChange of the activity input
EditActivity ==
    \E a \in ActivityInputs :
        /\ newLog' = [newLog EXCEPT !.activity = a]
        /\ ev' = [field |-> "activity", value |-> <<a>>]
        /\ logList' = CardioLogItems(logs)
        /\ UNCHANGED formFrame

\* onChange of a numeric input:
\* setNewLog({ ...newLog, [field]: Number(e.target.value) || undefined })
EditNumber ==
    \E f \in NumericFields : \E t \in NumericTexts :
        /\ newLog' = [newLog EXCEPT ![f] = NumberOrUndefined(t)]
        /\ ev' = [field |-> f, value |-> t]
        /\ logList' = CardioLogItems(logs)
        /\ UNCHANGED formFrame

\* the mount effect: adapter.listCardio().then(({ plan, logs }) => ...)
CardioLoaded ==
    /\ adapterName = "mock"
    /\ trace = <<>>
    /\ LET eff == MockAdapter_listCardio(MOCK_DB) IN
          /\ MOCK_DB' = eff.db
          /\ trace' = Append(trace, Entry("listCardio", <<>>, eff.result))
          /\ rows' = eff.result.plan
          /\ logs' = eff.result.logs
          /\ logList' = CardioLogItems(logs')
    /\ UNCHANGED <<variant, viewVars, iconVars, settingsVars, flowVars, dayVars, newLog, cardioStatus, statusTimers, ev,
                   cardioRefetches>>

\* logs one session saves
MaxCardioLogs == 3

\* save() on the Mock Adapter: every await resolves in the same turn.
\* part_000 schedules the status to clear; App.tsx does not.
Save ==
    /\ adapterName = "mock"
    /\ trace /= <<>>
    /\ Len(MOCK_DB.cardioLogs) < MaxCardioLogs
    /\ LET saved == MockAdapter_saveCardioLog(MOCK_DB, newLog)
           listed == MockAdapter_listCardio(saved.db)
       IN IF saved.result.ok
          THEN /\ MOCK_DB' = listed.db
               /\ trace' = trace \o <<Entry("saveCardioLog", newLog, saved.result),
                                      Entry("listCardio", <<>>, listed.result)>>
               /\ cardioStatus' = "Saved"
               /\ rows' = listed.result.plan
               /\ logs' = listed.result.logs
               /\ statusTimers' = IF variant = "part_000" THEN statusTimers + 1
                                  ELSE statusTimers
          ELSE /\ MOCK_DB' = saved.db
               /\ trace' = Append(trace, Entry("saveCardioLog", newLog, saved.result))
               /\ UNCHANGED <<cardioStatus, rows, logs, statusTimers>>
    /\ logList' = CardioLogItems(logs')
    /\ UNCHANGED <<variant, viewVars, iconVars, settingsVars, flowVars, dayVars, newLog, ev,
                   cardioRefetches>>

\* setTimeout(() => setStatus(""), 1500) fires
StatusTimeout ==
    /\ statusTimers > 0
    /\ statusTimers' = statusTimers - 1
    /\ cardioStatus' = ""
    /\ logList' = CardioLogItems(logs)
    /\ UNCHANGED <<variant, viewVars, mockVars, iconVars, settingsVars, flowVars, dayVars, rows, logs, newLog, ev,
                   cardioRefetches>>

InitCardio ==
    /\ variant \in Variants
    /\ MOCK_DB = MockSeed
    /\ trace = <<>>
    /\ plan = <<>>
    /\ exMap = EmptyObject
    /\ blocks = <<>>
    /\ cards = <<>>
    /\ viewPc = "idle"
    /\ CardioViewInit
    /\ IconsIdle
    /\ SettingsIdle
    /\ FlowIdle
    /\ DayIdle

\* SpecCardioForm: the new-log form under any sequence of edits
NextCardioForm == EditDate \/ EditActivity \/ EditNumber

SpecCardioForm == InitCardio /\ [][NextCardioForm]_vars

\* SpecCardio: the CardioView on the Mock Adapter: load, edit the date and
\* the activity, save
NextCardio == CardioLoaded \/ EditDate \/ EditActivity \/ Save \/ StatusTimeout

SpecCardio == InitCardio /\ [][NextCardio]_vars

(***************************************************************************)
(* tools/gen-icons.mjs: renderPadded                                       *)
(***************************************************************************)
\* PADDING = 0.12, in hundredths
PaddingPercent == 12

\* the sizes of pngJobs
PngJobSizes == {16, 32, 180, 192, 512}

\* Math.round(n / d) for n >= 0, d > 0: the nearest integer, a half rounding up
RoundDiv(n, d) == (2 * n + d) \div (2 * d)

\* InnerSize with the padding taken off one side only
InnerSizeOneSide(size) == RoundDiv(size * (100 - PaddingPercent), 100)

\* Math.round(size * (1 - 2 * PADDING)).  19 * size / 25 is never an integer
\* plus a half, so rounding the double and rounding the fraction agree.
InnerSize(size) == RoundDiv(size * (100 - 2 * PaddingPercent), 100)

\* the canvas of `size` and the composite of the inner x inner rendering
renderPadded(size, maskable) ==
    LET inner == InnerSize(size)
    IN [width |-> size, height |-> size,
        background |-> IF maskable THEN "transparent" ELSE "#111827",
        inner |-> inner,
        left |-> RoundDiv(size - inner, 2),
        top |-> RoundDiv(size - inner, 2)]

\* largest icon size tried besides the sizes of pngJobs
MaxIconSize == 64

InitIcons ==
    /\ variant = "part_000"
    /\ MOCK_DB = MockSeed
    /\ trace = <<>>
    /\ plan = <<>>
    /\ exMap = EmptyObject
    /\ blocks = <<>>
    /\ cards = <<>>
    /\ viewPc = "idle"
    /\ CardioViewInit
    /\ iconJob \in [size : (1..MaxIconSize) \cup PngJobSizes, maskable : BOOLEAN]
    /\ iconOut = NoIcon
    /\ iconPc = "call"
    /\ SettingsIdle
    /\ FlowIdle
    /\ DayIdle

RenderPadded ==
    /\ iconPc = "call"
    /\ iconOut' = renderPadded(iconJob.size, iconJob.maskable)
    /\ iconPc' = "done"
    /\ UNCHANGED <<variant, viewVars, mockVars, cardioVars, iconJob, settingsVars, flowVars, dayVars>>

NextIcons == RenderPadded

SpecIcons == InitIcons /\ [][NextIcons]_vars

(***************************************************************************)
(* SettingsView and the shell state it sets.  Spreadsheet ids and typed    *)
(* texts are sequences of one-character strings.                           *)
(***************************************************************************)
SHEET_ID_KEY == "wt_sheet_id"

\* localStorage.getItem(SHEET_ID_KEY) || ""
StoredSheetId(ls) == IF SHEET_ID_KEY \in DOMAIN ls THEN ls[SHEET_ID_KEY] ELSE <<>>

\* localStorage.setItem(SHEET_ID_KEY, id)
SetStoredSheetId(ls, id) == [k \in {SHEET_ID_KEY} |-> id]

\* String.prototype.trim
Trim(text) == TrimRight(TrimLeft(text))

\* useTypedSheet's id with the trim left out
TypedSheetIdUntrimmed(text) == text

\* const id = sheetIdInput.trim()
TypedSheetId(text) == Trim(text)

\* a typed id that is never rejected
RejectsTypedIdNever(id) == FALSE

\* if (!id) { alert(...); return; }
RejectsTypedId(id) == id = <<>>

\* the spreadsheet id the shell works with: part_000 keeps it in the App state
\* `sid`; App.tsx has no such state and reads sheetId() off localStorage
CurrentSheetId == IF variant = "App" THEN StoredSheetId(localStorage) ELSE sid

\* ev.data of a message event: whether it is an object, its type, its sheetId
NoObject == [isObject |-> FALSE, type |-> "", sheetId |-> <<>>]

Messages ==
    {NoObject}
    \cup [isObject : {TRUE}, type : {"wt/provisioned"}, sheetId : {<<>>, <<"s">>, <<"t">>}]
    \cup [isObject : {TRUE}, type : {"other"}, sheetId : {<<"s">>}]

\* d && d.type === "wt/provisioned" && d.sheetId
Qualifies(d) == d.isObject /\ d.type = "wt/provisioned" /\ d.sheetId /= <<>>

\* listeners still registered after a message event when none is one-shot
ListenersKept(n) == n

\* { once: true }: a listener is removed when the event it is invoked for is
\* dispatched, whatever the handler then does
ListenersAfterEvent(n) == 0

\* texts typed into the "Existing Sheet ID" input
SheetIdTexts == {<<>>, <<" ">>, <<"a">>, <<" ", "a", " ">>}

\* listener registrations and message events in one run
MaxSettingsEvents == 3

\* entries of settingsLog
Registered == [kind |-> "listener", data |-> NoObject, listeners |-> 0]
Dispatched(d, n) == [kind |-> "message", data |-> d, listeners |-> n]

\* onChange of the input: setSheetIdInput(e.target.value)
TypeSheetId ==
    /\ tab = SettingsTab
    /\ \E text \in SheetIdTexts : sheetIdInput' = text
    /\ settingsEv' = [handler |-> "onChange", blocked |-> FALSE]
    /\ UNCHANGED <<variant, viewVars, mockVars, cardioVars, iconVars, flowVars, dayVars, tab, localStorage, sid,
                   adapterName, msgListeners, popupsOpen, lastAlert, settingsLog>>

\* onBlur of the input: localStorage.setItem(SHEET_ID_KEY, sheetIdInput.trim())
BlurSheetId ==
    /\ tab = SettingsTab
    /\ localStorage' = SetStoredSheetId(localStorage, Trim(sheetIdInput))
    /\ settingsEv' = [handler |-> "onBlur", blocked |-> FALSE]
    /\ UNCHANGED <<variant, viewVars, mockVars, cardioVars, iconVars, flowVars, dayVars, tab, sid, adapterName,
                   sheetIdInput, msgListeners, popupsOpen, lastAlert, settingsLog>>

\* onChange of the select: setAdapterName(e.target.value)
SelectAdapter ==
    /\ tab = SettingsTab
    /\ \E name \in {"mock", "sheets"} : adapterName' = name
    /\ settingsEv' = [handler |-> "select", blocked |-> FALSE]
    /\ UNCHANGED <<variant, viewVars, mockVars, cardioVars, iconVars, flowVars, dayVars, tab, localStorage, sid,
                   sheetIdInput, msgListeners, popupsOpen, lastAlert, settingsLog>>

\* useTypedSheet; setSid exists in part_000 only
UseTypedSheet ==
    /\ tab = SettingsTab
    /\ settingsEv' = [handler |-> "useTypedSheet", blocked |-> FALSE]
    /\ LET id == TypedSheetId(sheetIdInput) IN
       IF RejectsTypedId(id)
       THEN /\ lastAlert' = "Paste a Google Sheet ID first"
            /\ UNCHANGED <<localStorage, sid, adapterName>>
       ELSE /\ localStorage' = SetStoredSheetId(localStorage, id)
            /\ sid' = IF variant = "App" THEN sid ELSE id
            /\ adapterName' = "sheets"
            /\ UNCHANGED lastAlert
    /\ UNCHANGED <<variant, viewVars, mockVars, cardioVars, iconVars, flowVars, dayVars, tab, sheetIdInput,
                   msgListeners, popupsOpen, settingsLog>>

\* createBackend: window.open yields null when the popup is blocked; else the
\* one-shot onMsg is registered
CreateBackend ==
    /\ tab = SettingsTab
    /\ Len(settingsLog) < MaxSettingsEvents
    /\ \E blocked \in BOOLEAN :
          /\ settingsEv' = [handler |-> "createBackend", blocked |-> blocked]
          /\ IF blocked
             THEN /\ lastAlert' = "Popup blocked"
                  /\ UNCHANGED <<msgListeners, popupsOpen, settingsLog>>
             ELSE /\ msgListeners' = msgListeners + 1
                  /\ popupsOpen' = popupsOpen + 1
                  /\ settingsLog' = Append(settingsLog, Registered)
                  /\ UNCHANGED lastAlert
    /\ UNCHANGED <<variant, viewVars, mockVars, cardioVars, iconVars, flowVars, dayVars, tab, localStorage, sid,
                   adapterName, sheetIdInput>>

\* a "message" event on window with data d: every registered onMsg is invoked
\* with it and, being one-shot, is no longer registered afterwards.  Each onMsg
\* closes the popup of its own createBackend call.  setSid and setSheetIdInput
\* exist in part_000 only; App.tsx alerts the sheet's url.
MessageEvent ==
    /\ Len(settingsLog) < MaxSettingsEvents
    /\ \E d \in Messages :
          /\ settingsLog' = Append(settingsLog, Dispatched(d, msgListeners))
          /\ msgListeners' = ListenersAfterEvent(msgListeners)
          /\ IF msgListeners > 0 /\ Qualifies(d)
             THEN /\ localStorage' = SetStoredSheetId(localStorage, d.sheetId)
                  /\ sid' = IF variant = "App" THEN sid ELSE d.sheetId
                  /\ sheetIdInput' = IF variant = "App" THEN sheetIdInput ELSE d.sheetId
                  /\ adapterName' = "sheets"
                  /\ popupsOpen' = popupsOpen - msgListeners
                  /\ lastAlert' = IF variant = "App" THEN "Backend created" ELSE lastAlert
             ELSE UNCHANGED <<localStorage, sid, sheetIdInput, adapterName, popupsOpen,
                              lastAlert>>
    /\ settingsEv' = [handler |-> "onMsg", blocked |-> FALSE]
    /\ UNCHANGED <<variant, viewVars, mockVars, cardioVars, iconVars, flowVars, dayVars, tab>>

\* a click on a tab button: setTab. The Settings view is mounted when its tab
\* is shown and starts from useState(localStorage.getItem(SHEET_ID_KEY) || "")
SelectTab ==
    /\ \E t \in Tabs :
          /\ tab' = t
          /\ sheetIdInput' = IF t = SettingsTab /\ tab /= SettingsTab
                             THEN StoredSheetId(localStorage) ELSE sheetIdInput
    /\ settingsEv' = [handler |-> "setTab", blocked |-> FALSE]
    /\ UNCHANGED <<variant, viewVars, mockVars, cardioVars, iconVars, flowVars, dayVars,
                   localStorage, sid, adapterName, msgListeners, popupsOpen, lastAlert,
                   settingsLog>>

\* localStorage when the page loads
StoredInputs == {EmptyObject, SetStoredSheetId(EmptyObject, <<"a">>)}

\* the application started: App's useState initial values; sheetIdInput holds
\* what SettingsView's useState will start from
InitSettings ==
    /\ variant \in Variants
    /\ MOCK_DB = MockSeed
    /\ trace = <<>>
    /\ plan = <<>>
    /\ exMap = EmptyObject
    /\ blocks = <<>>
    /\ cards = <<>>
    /\ viewPc = "idle"
    /\ CardioViewInit
    /\ IconsIdle
    /\ localStorage \in StoredInputs
    /\ sid = IF variant = "App" THEN <<>> ELSE StoredSheetId(localStorage)
    /\ adapterName =
          IF variant /= "App" /\ StoredSheetId(localStorage) /= <<>> THEN "sheets" ELSE "mock"
    /\ sheetIdInput = StoredSheetId(localStorage)
    /\ msgListeners = 0
    /\ popupsOpen = 0
    /\ lastAlert = ""
    /\ settingsEv = [handler |-> "", blocked |-> FALSE]
    /\ settingsLog = <<>>
    /\ tab = DailyTab
    /\ FlowIdle
    /\ DayIdle

NextSettings ==
    \/ SelectTab
    \/ TypeSheetId
    \/ BlurSheetId
    \/ SelectAdapter
    \/ UseTypedSheet
    \/ CreateBackend
    \/ MessageEvent

SpecSettings == InitSettings /\ [][NextSettings]_vars

(***************************************************************************)
(* SpecMock: any sequence of calls on the Mock Adapter                     *)
(***************************************************************************)
\* adapter calls in one run
MaxCalls == 3

\* strings `ex_${Math.random().toString(36).slice(2, 10)}` can yield
RandomTokens == {"ex_r1", "ex_r2"}

\* exercises handed to addExercise: with and without an id
ExerciseInputs ==
    [id : {Undefined, "ex_alt"}, name : {"Alternative"}, default_reps : {Undefined, "5"}]

\* rows handed to addPlanRow
AddedRowInputs ==
    {[day_id |-> d, block_order |-> k[2], block_name |-> k[1], set_number |-> 1,
      exercise_id |-> id, prescribed_reps |-> Undefined] :
        d \in DayIds,
        k \in {<<"Ad hoc alternatives", 99>>, <<"Glute Strength Block", 1>>},
        id \in {Undefined, "ex_alt", "ex_r1"}}

StrengthLogInputs ==
    {[date_iso |-> "2025-08-20", day_id |-> "Day 1", block_name |-> "Core Block",
      set_number |-> 1, exercise_id |-> "ex_banded_deadbug", reps_done |-> "6"]}

\* CardioLog: an optional number is <<>> when absent and <<n>> when n
CardioLogInputs ==
    {[date_iso |-> "2025-08-21", activity |-> "Ride", duration_min |-> <<45>>,
      distance_km |-> <<>>, avg_hr |-> <<>>, rpe |-> <<>>],
     [date_iso |-> "2025-08-20", activity |-> "Run", duration_min |-> <<>>,
      distance_km |-> <<>>, avg_hr |-> <<>>, rpe |-> <<>>]}

\* what a call on the adapter leaves alone; the calls go through the active
\* adapter, here the Mock Adapter
callFrame == <<variant, viewVars, cardioVars, iconVars, settingsVars, flowVars, dayVars>>

CallListDays ==
    /\ adapterName = "mock"
    /\ Len(trace) < MaxCalls
    /\ LET eff == MockAdapter_listDays(MOCK_DB) IN
          /\ MOCK_DB' = eff.db
          /\ trace' = Append(trace, Entry("listDays", <<>>, eff.result))
    /\ UNCHANGED callFrame

CallGetPlanForDay ==
    /\ adapterName = "mock"
    /\ Len(trace) < MaxCalls
    /\ \E d \in DayIds :
          LET eff == GetPlanForDay(MOCK_DB, d) IN
          /\ MOCK_DB' = eff.db
          /\ trace' = Append(trace, Entry("getPlanForDay", d, eff.result))
    /\ UNCHANGED callFrame

CallListCardio ==
    /\ adapterName = "mock"
    /\ Len(trace) < MaxCalls
    /\ LET eff == MockAdapter_listCardio(MOCK_DB) IN
          /\ MOCK_DB' = eff.db
          /\ trace' = Append(trace, Entry("listCardio", <<>>, eff.result))
    /\ UNCHANGED callFrame

CallSaveStrengthLog ==
    /\ adapterName = "mock"
    /\ Len(trace) < MaxCalls
    /\ \E log \in StrengthLogInputs :
          LET eff == MockAdapter_saveStrengthLog(MOCK_DB, log) IN
          /\ MOCK_DB' = eff.db
          /\ trace' = Append(trace, Entry("saveStrengthLog", log, eff.result))
    /\ UNCHANGED callFrame

CallSaveCardioLog ==
    /\ adapterName = "mock"
    /\ Len(trace) < MaxCalls
    /\ \E log \in CardioLogInputs :
          LET eff == MockAdapter_saveCardioLog(MOCK_DB, log) IN
          /\ MOCK_DB' = eff.db
          /\ trace' = Append(trace, Entry("saveCardioLog", log, eff.result))
    /\ UNCHANGED callFrame

CallAddExercise ==
    /\ adapterName = "mock"
    /\ Len(trace) < MaxCalls
    /\ \E ex \in ExerciseInputs : \E token \in RandomTokens :
          LET eff == AddExercise(MOCK_DB, ex, token) IN
          /\ MOCK_DB' = eff.db
          /\ trace' = Append(trace, Entry("addExercise", ex, eff.result))
    /\ UNCHANGED callFrame

CallAddPlanRow ==
    /\ adapterName = "mock"
    /\ Len(trace) < MaxCalls
    /\ \E row \in AddedRowInputs :
          LET eff == MockAdapter_addPlanRow(MOCK_DB, row) IN
          /\ MOCK_DB' = eff.db
          /\ trace' = Append(trace, Entry("addPlanRow", row, eff.result))
    /\ UNCHANGED callFrame

InitMock ==
    /\ variant \in Variants
    /\ MOCK_DB = MockSeed
    /\ trace = <<>>
    /\ plan = <<>>
    /\ exMap = EmptyObject
    /\ blocks = <<>>
    /\ cards = <<>>
    /\ viewPc = "idle"
    /\ CardioViewInit
    /\ IconsIdle
    /\ SettingsIdle
    /\ FlowIdle
    /\ DayIdle

NextMock ==
    \/ CallListDays
    \/ CallGetPlanForDay
    \/ CallListCardio
    \/ CallSaveStrengthLog
    \/ CallSaveCardioLog
    \/ CallAddExercise
    \/ CallAddPlanRow

SpecMock == InitMock /\ [][NextMock]_vars

(***************************************************************************)
(* SpecSwitch: the Mock Adapter over a session in which the backend is     *)
(* switched                                                                *)
(***************************************************************************)
\* new MockAdapter() reseeding the data
NewMockAdapterReseeded(db) == MockSeed

\* new MockAdapter(): the class has no constructor and no fields; MOCK_DB is
\* a module-level constant initialised once
NewMockAdapter(db) == db

\* the backend select changes adapterName and App's useMemo constructs the
\* adapter of that name
SwitchBackend ==
    /\ Len(trace) < MaxCalls
    /\ \E name \in {"mock", "sheets"} \ {adapterName} :
          /\ adapterName' = name
          /\ MOCK_DB' = IF name = "mock" THEN NewMockAdapter(MOCK_DB) ELSE MOCK_DB
          /\ trace' = Append(trace, Entry("constructor", name, <<>>))
    /\ settingsEv' = [handler |-> "select", blocked |-> FALSE]
    /\ UNCHANGED <<variant, viewVars, cardioVars, iconVars, flowVars, dayVars, tab,
                   localStorage, sid, sheetIdInput, msgListeners, popupsOpen, lastAlert,
                   settingsLog>>

NextSwitch ==
    \/ SwitchBackend
    \/ CallGetPlanForDay
    \/ CallListCardio
    \/ CallSaveStrengthLog
    \/ CallSaveCardioLog
    \/ CallAddExercise
    \/ CallAddPlanRow

SpecSwitch == InitMock /\ [][NextSwitch]_vars

(***************************************************************************)
(* SpecSheets: calls on the Google Sheets Adapter, each answered by a      *)
(* response of the bridge                                                  *)
(***************************************************************************)
\* adapter calls in one run
MaxSheetCalls == 2

CardioPlanA == <<[day_id |-> "Day 2", activity |-> "Zone 2 Ride"]>>
CardioPlanB == <<[day_id |-> "Day 3", activity |-> "Tempo Run"]>>

\* bodies of listCardio responses
CardioBodies ==
    {[NoBody EXCEPT !.plan = p, !.cardio = c, !.logs = l] :
        p \in {JUndefined, JArray(CardioPlanA)},
        c \in {JUndefined, JArray(CardioPlanA), JArray(CardioPlanB)},
        l \in {JUndefined, JNull, JArray(<<CHOOSE x \in CardioLogInputs : x.activity = "Run">>)}}

\* bodies of listDays responses
DaysBodies ==
    {NoBody, [NoBody EXCEPT !.days = JArray(<<[day_id |-> "Day 1", day_name |-> "Glutes + Core"]>>)]}

\* bodies of getPlanForDay responses
PlanBodies ==
    {[NoBody EXCEPT !.plan = p, !.exercises = e] :
        p \in {JUndefined,
               JArray(<<SeedPlanRow(1, "Glute Strength Block", 1, "ex_glute_bridge", "8 to 10")>>)},
        e \in {JUndefined, JObject([k \in {"ex_glute_bridge"} |-> SeedGluteBridge])}}

\* bodies of write responses
WriteBodies == {[NoBody EXCEPT !.ok = o] : o \in {JUndefined, JBoolean(TRUE), JBoolean(FALSE)}}

\* bodies of addExercise responses: with and without the echoed exercise_id
AddExerciseBodies ==
    {[NoBody EXCEPT !.ok = JBoolean(TRUE), !.exercise_id = id] :
        id \in {JUndefined, JString("ex_alt"), JString("ex_r1")}}
    \cup {[NoBody EXCEPT !.ok = JBoolean(FALSE)]}

\* one entry of the trace of SpecSheets
SheetsEntry(op, arg, resp, outcome) ==
    [op |-> op, arg |-> arg, response |-> resp, outcome |-> outcome]

SheetsListDays ==
    /\ Len(trace) < MaxSheetCalls
    /\ \E resp \in Responses(DaysBodies) :
          trace' = Append(trace, SheetsEntry("listDays", "", resp, Sheets_listDays(resp)))
    /\ UNCHANGED <<variant, viewVars, MOCK_DB, cardioVars, iconVars, settingsVars, flowVars, dayVars>>

SheetsGetPlanForDay ==
    /\ Len(trace) < MaxSheetCalls
    /\ \E resp \in Responses(PlanBodies) :
          trace' = Append(trace,
                          SheetsEntry("getPlanForDay", "Day 1", resp, Sheets_getPlanForDay(resp)))
    /\ UNCHANGED <<variant, viewVars, MOCK_DB, cardioVars, iconVars, settingsVars, flowVars, dayVars>>

SheetsListCardio ==
    /\ Len(trace) < MaxSheetCalls
    /\ \E resp \in Responses(CardioBodies) :
          trace' = Append(trace, SheetsEntry("listCardio", "", resp, Sheets_listCardio(resp)))
    /\ UNCHANGED <<variant, viewVars, MOCK_DB, cardioVars, iconVars, settingsVars, flowVars, dayVars>>

SheetsSaveStrengthLog ==
    /\ Len(trace) < MaxSheetCalls
    /\ \E log \in StrengthLogInputs, resp \in Responses(WriteBodies) :
          trace' = Append(trace, SheetsEntry("saveStrengthLog", log, resp, Sheets_write(resp)))
    /\ UNCHANGED <<variant, viewVars, MOCK_DB, cardioVars, iconVars, settingsVars, flowVars, dayVars>>

SheetsSaveCardioLog ==
    /\ Len(trace) < MaxSheetCalls
    /\ \E log \in {x \in CardioLogInputs : x.activity = "Ride"}, resp \in Responses(WriteBodies) :
          trace' = Append(trace, SheetsEntry("saveCardioLog", log, resp, Sheets_write(resp)))
    /\ UNCHANGED <<variant, viewVars, MOCK_DB, cardioVars, iconVars, settingsVars, flowVars, dayVars>>

SheetsAddExercise ==
    /\ Len(trace) < MaxSheetCalls
    /\ \E ex \in {x \in ExerciseInputs : x.default_reps = "5"},
          resp \in Responses(AddExerciseBodies) :
          trace' = Append(trace,
                          SheetsEntry("addExercise", ex, resp, Sheets_addExercise(resp, ex)))
    /\ UNCHANGED <<variant, viewVars, MOCK_DB, cardioVars, iconVars, settingsVars, flowVars, dayVars>>

SheetsAddPlanRow ==
    /\ Len(trace) < MaxSheetCalls
    /\ \E row \in {x \in AddedRowInputs : x.day_id = "Day 1" /\ x.exercise_id = "ex_alt"
                                          /\ x.block_order = 99},
          resp \in Responses(WriteBodies) :
          trace' = Append(trace, SheetsEntry("addPlanRow", row, resp, Sheets_write(resp)))
    /\ UNCHANGED <<variant, viewVars, MOCK_DB, cardioVars, iconVars, settingsVars, flowVars, dayVars>>

InitSheets ==
    /\ variant \in Variants
    /\ MOCK_DB = MockSeed
    /\ trace = <<>>
    /\ plan = <<>>
    /\ exMap = EmptyObject
    /\ blocks = <<>>
    /\ cards = <<>>
    /\ viewPc = "idle"
    /\ CardioViewInit
    /\ IconsIdle
    /\ SettingsIdle
    /\ FlowIdle
    /\ DayIdle

NextSheets ==
    \/ SheetsListDays
    \/ SheetsGetPlanForDay
    \/ SheetsListCardio
    \/ SheetsSaveStrengthLog
    \/ SheetsSaveCardioLog
    \/ SheetsAddExercise
    \/ SheetsAddPlanRow

SpecSheets == InitSheets /\ [][NextSheets]_vars

(***************************************************************************)
(* The spreadsheet bridge (the Apps Script sample of src/App.tsx) and      *)
(* DayWorkoutView.addAlternativeExercise                                   *)
(***************************************************************************)
\* a cell written from an undefined value reads back as the empty string
Cell(str) == IF str = Undefined THEN "" ELSE str

\* getPlanForDay of the bridge: exMap[r[eIdx.id]] = {...} over the Exercises rows
RECURSIVE ExMapOf(_)
ExMapOf(exRows) ==
    IF exRows = <<>> THEN EmptyObject
    ELSE Store(ExMapOf(SubSeq(exRows, 1, Len(exRows) - 1)),
               exRows[Len(exRows)].id, exRows[Len(exRows)])

\* the bridge answering addExercise without appending the row
Bridge_addExerciseDropped(sh, ex, token) ==
    Effect(sh, [NoBody EXCEPT !.ok = JBoolean(TRUE),
                              !.exercise_id = JString(OrElse(ex.id, token))])

\* addExercise of the bridge: id = ex.id || 'ex_' + random; appendRow; { ok, exercise_id }
Bridge_addExercise(sh, ex, token) ==
    LET id == OrElse(ex.id, token)
    IN Effect([sh EXCEPT !.exercises =
                  Append(@, [id |-> id, name |-> Cell(ex.name),
                             default_reps |-> Cell(ex.default_reps)])],
              [NoBody EXCEPT !.ok = JBoolean(TRUE), !.exercise_id = JString(id)])

\* the WorkoutPlan row appendRow writes for a plan row
StoredRow(row) == [row EXCEPT !.exercise_id = Cell(@), !.prescribed_reps = Cell(@)]

\* addPlanRow of the bridge: appendRow; { ok: true }
Bridge_addPlanRow(sh, row) ==
    Effect([sh EXCEPT !.plan = Append(@, StoredRow(row))],
           [NoBody EXCEPT !.ok = JBoolean(TRUE)])

\* getPlanForDay of the bridge
Bridge_getPlanForDay(sh, day_id) ==
    Effect(sh, [NoBody EXCEPT
                   !.plan = JArray(SelectSeq(sh.plan, LAMBDA r : r.day_id = day_id)),
                   !.exercises = JObject(ExMapOf(sh.exercises))])

\* doGet of the bridge reads e.parameter.day_id; the adapter sends the day
\* under the parameter name `day`
Bridge_doGet_getPlanForDay(sh, params) == Bridge_getPlanForDay(sh, Lookup(params, "day_id"))

\* the spreadsheet to start with
SheetSeed ==
    [exercises |-> <<SeedGluteBridge>>,
     plan |-> <<SeedPlanRow(1, "Glute Strength Block", 1, "ex_glute_bridge", "8 to 10")>>]

\* how a request to the bridge goes: it never arrives; it is carried out but
\* the answer never arrives; it is carried out and answered
Transports == {"lost", "unanswered", "answered"}

\* the response fetch yields for a request that went that way
Transported(t, body) ==
    IF t = "answered" THEN [net |-> TRUE, ok |-> TRUE, json |-> TRUE, body |-> body]
    ELSE NetworkError

\* the spreadsheet after a write request that went that way
Written(t, sh, eff) == IF t = "lost" THEN sh ELSE eff.db

\* a JSON value as a string-or-undefined field
FromJ(x) == IF x[1] = "string" THEN x[2] ELSE Undefined

\* flows started in one run
MaxFlows == 2

\* texts typed into the query input
QueryTexts == {<<>>, <<" ">>, <<"q">>}

\* a record of flowLog: the exercise looked up, the catalogue key it was
\* written under, the plan row sent, and the call the flow ended at ("ok"
\* when it completed, "" while it runs)
FlowStarted ==
    [ex |-> NoExercise, key |-> Undefined, row |-> NoRow, rowSent |-> FALSE, ended |-> ""]

\* aiBusy once the flow has left its try block by a failure only
BusyAfterFlowNoFinally(ended) == ended /= "ok"

\* finally { setAiBusy(false); }
BusyAfterFlow(ended) == FALSE

\* the plan row of step 2 carrying the id the looked-up exercise came with
AdHocRowSentId(day, exercise_id, ex) ==
    [day_id |-> day, block_order |-> 99, block_name |-> "Ad hoc alternatives",
     set_number |-> 1, exercise_id |-> ex.id, prescribed_reps |-> ex.default_reps]

\* the button left enabled
DisabledNever(busy) == FALSE

\* disabled={aiBusy}
Disabled(busy) == busy

\* the plan row of step 2
AdHocRow(day, exercise_id, ex) ==
    [day_id |-> day, block_order |-> 99, block_name |-> "Ad hoc alternatives",
     set_number |-> 1, exercise_id |-> exercise_id, prescribed_reps |-> ex.default_reps]

\* the flowLog with its last record changed
Logged(log, rec) == [log EXCEPT ![Len(log)] = rec]

\* onChange of the query input: setAiQuery(e.target.value)
TypeQuery ==
    /\ \E text \in QueryTexts : aiQuery' = text
    /\ UNCHANGED <<variant, viewVars, mockVars, cardioVars, iconVars, settingsVars, dayVars,
                   selectedDay, aiBusy, aiPc, aiEx, aiAddRes, sheet, flowLog>>

\* click on "Add via AI" (the button is disabled while aiBusy): the guard of
\* addAlternativeExercise, setAiBusy(true) and the lookup request
StartFlow ==
    /\ ~Disabled(aiBusy)
    /\ Len(flowLog) < MaxFlows
    /\ IF selectedDay = "" \/ Trim(aiQuery) = <<>>
       THEN /\ dayEv' = [NoDayEvent EXCEPT !.handler = "addAlternativeExercise",
                                            !.day = selectedDay]
            /\ UNCHANGED <<aiBusy, aiPc, flowLog>>
       ELSE /\ aiBusy' = TRUE
            /\ aiPc' = "lookup"
            /\ flowLog' = Append(flowLog, FlowStarted)
            /\ dayEv' = [NoDayEvent EXCEPT !.handler = "addAlternativeExercise",
                                            !.day = selectedDay, !.called = TRUE]
    /\ UNCHANGED <<variant, viewVars, mockVars, cardioVars, iconVars, settingsVars,
                   loading, fetches, dayStatus, dayTimers, daySaves, dayEvents,
                   selectedDay, aiQuery, aiEx, aiAddRes, sheet>>

\* the lookup fails: fetch rejects or the body is no JSON
LookupFails ==
    /\ aiPc = "lookup"
    /\ aiBusy' = BusyAfterFlow("lookup")
    /\ aiPc' = "idle"
    /\ flowLog' = Logged(flowLog, [FlowStarted EXCEPT !.ended = "lookup"])
    /\ UNCHANGED <<variant, viewVars, mockVars, cardioVars, iconVars, settingsVars, dayVars,
                   selectedDay, aiQuery, aiEx, aiAddRes, sheet>>

\* the lookup answers with an exercise and the backend is the Mock Adapter:
\* addExercise, addPlanRow and getPlanForDay resolve without leaving the
\* microtask queue, so the flow runs to its end
LookupDoneMock ==
    /\ aiPc = "lookup"
    /\ adapterName = "mock"
    /\ \E ex \in ExerciseInputs, token \in RandomTokens :
          LET added == AddExercise(MOCK_DB, ex, token)
              row == AdHocRow(selectedDay, added.result.exercise_id, ex)
              appended == MockAdapter_addPlanRow(added.db, row)
              updated == GetPlanForDay(appended.db, selectedDay)
          IN /\ MOCK_DB' = appended.db
             /\ aiEx' = ex
             /\ aiAddRes' = added.result.exercise_id
             /\ plan' = updated.result.plan
             /\ exMap' = updated.result.exercises
             /\ flowLog' = Logged(flowLog,
                                  [ex |-> ex, key |-> PropertyKey(added.result.exercise_id),
                                   row |-> row, rowSent |-> TRUE, ended |-> "ok"])
    /\ blocks' = Blocks(plan', exMap')
    /\ cards' = [i \in 1..Len(blocks') |-> Block(blocks'[i])]
    /\ viewPc' = "rendered"
    /\ aiQuery' = <<>>
    /\ aiBusy' = BusyAfterFlow("ok")
    /\ aiPc' = "idle"
    /\ UNCHANGED <<variant, trace, cardioVars, iconVars, settingsVars, dayVars, selectedDay, sheet>>

\* the lookup answers with an exercise and the backend is the Sheets Adapter:
\* the addExercise request is sent
LookupDoneSheets ==
    /\ aiPc = "lookup"
    /\ adapterName = "sheets"
    /\ \E ex \in ExerciseInputs :
          /\ aiEx' = ex
          /\ flowLog' = Logged(flowLog, [FlowStarted EXCEPT !.ex = ex])
    /\ aiPc' = "addExercise"
    /\ UNCHANGED <<variant, viewVars, mockVars, cardioVars, iconVars, settingsVars, dayVars,
                   selectedDay, aiQuery, aiBusy, aiAddRes, sheet>>

\* the addExercise request ends; resolved, the addPlanRow request is sent
AddExerciseDone ==
    /\ aiPc = "addExercise"
    /\ \E t \in Transports, token \in RandomTokens :
          LET eff == Bridge_addExercise(sheet, aiEx, token)
              out == Sheets_addExercise(Transported(t, eff.result), aiEx)
              rec == flowLog[Len(flowLog)]
          IN /\ sheet' = Written(t, sheet, eff)
             /\ IF out.rejected
                THEN /\ aiBusy' = BusyAfterFlow("addExercise")
                     /\ aiPc' = "idle"
                     /\ flowLog' = Logged(flowLog, [rec EXCEPT !.ended = "addExercise"])
                     /\ UNCHANGED aiAddRes
                ELSE /\ aiAddRes' = FromJ(out.value.exercise_id)
                     /\ aiPc' = "addPlanRow"
                     /\ flowLog' =
                           Logged(flowLog,
                                  [rec EXCEPT !.key = OrElse(aiEx.id, token),
                                              !.row = AdHocRow(selectedDay, aiAddRes', aiEx),
                                              !.rowSent = TRUE])
                     /\ UNCHANGED aiBusy
    /\ UNCHANGED <<variant, viewVars, mockVars, cardioVars, iconVars, settingsVars, dayVars,
                   selectedDay, aiQuery, aiEx>>

\* the addPlanRow request ends; resolved, the getPlanForDay request is sent
AddPlanRowDone ==
    /\ aiPc = "addPlanRow"
    /\ \E t \in Transports :
          LET eff == Bridge_addPlanRow(sheet, AdHocRow(selectedDay, aiAddRes, aiEx))
              out == Sheets_write(Transported(t, eff.result))
              rec == flowLog[Len(flowLog)]
          IN /\ sheet' = Written(t, sheet, eff)
             /\ IF out.rejected
                THEN /\ aiBusy' = BusyAfterFlow("addPlanRow")
                     /\ aiPc' = "idle"
                     /\ flowLog' = Logged(flowLog, [rec EXCEPT !.ended = "addPlanRow"])
                ELSE /\ aiPc' = "reload"
                     /\ UNCHANGED <<aiBusy, flowLog>>
    /\ UNCHANGED <<variant, viewVars, mockVars, cardioVars, iconVars, settingsVars, dayVars,
                   selectedDay, aiQuery, aiEx, aiAddRes>>

\* the reload fails
ReloadFails ==
    /\ aiPc = "reload"
    /\ aiBusy' = BusyAfterFlow("reload")
    /\ aiPc' = "idle"
    /\ flowLog' = Logged(flowLog, [flowLog[Len(flowLog)] EXCEPT !.ended = "reload"])
    /\ UNCHANGED <<variant, viewVars, mockVars, cardioVars, iconVars, settingsVars, dayVars,
                   selectedDay, aiQuery, aiEx, aiAddRes, sheet>>

\* the reload resolves: setPlan, setExMap, setAiQuery(""), and the finally
ReloadDone ==
    /\ aiPc = "reload"
    /\ LET eff == Bridge_doGet_getPlanForDay(sheet, [day |-> selectedDay])
           out == Sheets_getPlanForDay(Transported("answered", eff.result))
       IN /\ plan' = out.value.plan[2]
          /\ exMap' = out.value.exercises[2]
    /\ blocks' = Blocks(plan', exMap')
    /\ cards' = [i \in 1..Len(blocks') |-> Block(blocks'[i])]
    /\ viewPc' = "rendered"
    /\ aiQuery' = <<>>
    /\ aiBusy' = BusyAfterFlow("ok")
    /\ aiPc' = "idle"
    /\ flowLog' = Logged(flowLog, [flowLog[Len(flowLog)] EXCEPT !.ended = "ok"])
    /\ UNCHANGED <<variant, mockVars, cardioVars, iconVars, settingsVars, dayVars, selectedDay,
                   aiEx, aiAddRes, sheet>>

\* DayWorkoutView with a day selected or not, on either backend
InitAdHoc ==
    /\ variant \in Variants
    /\ MOCK_DB = MockSeed
    /\ trace = <<>>
    /\ plan = <<>>
    /\ exMap = EmptyObject
    /\ blocks = <<>>
    /\ cards = <<>>
    /\ viewPc = "idle"
    /\ CardioViewInit
    /\ IconsIdle
    /\ localStorage = EmptyObject
    /\ sid = <<>>
    /\ adapterName \in {"mock", "sheets"}
    /\ sheetIdInput = <<>>
    /\ msgListeners = 0
    /\ popupsOpen = 0
    /\ lastAlert = ""
    /\ settingsEv = [handler |-> "", blocked |-> FALSE]
    /\ settingsLog = <<>>
    /\ selectedDay \in {"", "Day 1"}
    /\ aiQuery = <<>>
    /\ aiBusy = FALSE
    /\ aiPc = "idle"
    /\ aiEx = NoExercise
    /\ aiAddRes = Undefined
    /\ sheet = SheetSeed
    /\ flowLog = <<>>
    /\ tab = DailyTab
    /\ DayIdle

NextAdHoc ==
    \/ TypeQuery
    \/ StartFlow
    \/ LookupFails
    \/ LookupDoneMock
    \/ LookupDoneSheets
    \/ AddExerciseDone
    \/ AddPlanRowDone
    \/ ReloadFails
    \/ ReloadDone

SpecAdHoc == InitAdHoc /\ [][NextAdHoc]_vars

(***************************************************************************)
(* DayWorkoutView: the plan effect and onSave (SpecDay)                    *)
(***************************************************************************)
\* day selections and set saves in one run
MaxDayEvents == 4

\* a spreadsheet with one exercise in two blocks of Day 1 and a row for Day 2
DaySheet ==
    [exercises |-> <<SeedGluteBridge, SeedDeadbug>>,
     plan |-> <<SeedPlanRow(1, "Glute Strength Block", 1, "ex_glute_bridge", "8 to 10"),
                SeedPlanRow(2, "Core Block", 1, "ex_glute_bridge", Undefined),
                [SeedPlanRow(1, "Core Block", 1, "ex_banded_deadbug", Undefined)
                    EXCEPT !.day_id = "Day 2"]>>]

\* a bridge whose doGet hands getPlanForDay the request's parameter `day`
Bridge_doGet_byDay(sh, params) == Bridge_getPlanForDay(sh, Lookup(params, "day"))

\* what the bridge can answer to action=getPlanForDay&day=<day>
PlanAnswers(sh, day) ==
    {Bridge_doGet_getPlanForDay(sh, [day |-> day]).result,
     Bridge_doGet_byDay(sh, [day |-> day]).result}

\* a sequence without its i-th element
Without(seq, i) == SubSeq(seq, 1, i - 1) \o SubSeq(seq, i + 1, Len(seq))

\* a then-callback that stores its results only for the day still selected
StoresResultIfSelected(day, selected) == day = selected

\* the then-callback of the plan effect stores whatever it is handed: the
\* effect has no cleanup and the callback no check of the day
StoresResult(day, selected) == TRUE

\* the cards below the toolbar: {!loading && blocks.map(...)}
DayCards(ld, bs) == IF ld THEN <<>> ELSE [i \in 1..Len(bs) |-> Block(bs[i])]

\* plan.find((p) => p.exercise_id === exercise_id) picking the last match
FindRowLast(rs, exercise_id) ==
    LET hits == SelectSeq(rs, LAMBDA r : r.exercise_id = exercise_id)
    IN IF hits = <<>> THEN NoRow ELSE hits[Len(hits)]

\* plan.find((p) => p.exercise_id === exercise_id); NoRow for undefined
FindRow(rs, exercise_id) ==
    LET hits == SelectSeq(rs, LAMBDA r : r.exercise_id = exercise_id)
    IN IF hits = <<>> THEN NoRow ELSE hits[1]

\* the StrengthLog onSave builds
StrengthLogOf(dayRow, exercise_id, set_number, reps_done) ==
    [date_iso |-> Today, day_id |-> dayRow.day_id, block_name |-> dayRow.block_name,
     set_number |-> set_number, exercise_id |-> exercise_id, reps_done |-> reps_done]

\* exercise ids onSave is invoked with: those of the seeds and one no row
\* carries; the cards that invoke it are rendered while the view is not loading
SaveIds == {"ex_glute_bridge", "ex_banded_deadbug", "ex_other"}

\* onChange of the day select on the Mock Adapter: setSelectedDay, then the
\* plan effect, whose getPlanForDay resolves in the same turn
SelectDayMock ==
    /\ adapterName = "mock"
    /\ dayEvents < MaxDayEvents
    /\ \E d \in ({""} \cup DayIds) \ {selectedDay} :
          /\ selectedDay' = d
          /\ dayEv' = [NoDayEvent EXCEPT !.handler = "select", !.day = d]
          /\ IF d = ""
             THEN UNCHANGED <<plan, exMap, loading>>
             ELSE LET got == GetPlanForDay(MOCK_DB, d).result
                  IN /\ plan' = got.plan
                     /\ exMap' = got.exercises
                     /\ loading' = FALSE
    /\ blocks' = Blocks(plan', exMap')
    /\ cards' = DayCards(loading', blocks')
    /\ viewPc' = "rendered"
    /\ dayEvents' = dayEvents + 1
    /\ UNCHANGED <<variant, mockVars, cardioVars, iconVars, settingsVars, aiQuery, aiBusy,
                   aiPc, aiEx, aiAddRes, sheet, flowLog, fetches, dayStatus, dayTimers,
                   daySaves>>

\* onChange of the day select on the Sheets Adapter: setSelectedDay, then the
\* plan effect sets loading and sends the getPlanForDay request
SelectDaySheets ==
    /\ adapterName = "sheets"
    /\ dayEvents < MaxDayEvents
    /\ \E d \in ({""} \cup DayIds) \ {selectedDay} :
          /\ selectedDay' = d
          /\ dayEv' = [NoDayEvent EXCEPT !.handler = "select", !.day = d]
          /\ IF d = ""
             THEN UNCHANGED <<loading, fetches>>
             ELSE /\ loading' = TRUE
                  /\ fetches' = Append(fetches, d)
    /\ cards' = DayCards(loading', blocks)
    /\ viewPc' = "rendered"
    /\ dayEvents' = dayEvents + 1
    /\ UNCHANGED <<variant, plan, exMap, blocks, mockVars, cardioVars, iconVars,
                   settingsVars, aiQuery, aiBusy, aiPc, aiEx, aiAddRes, sheet, flowLog,
                   dayStatus, dayTimers, daySaves>>

\* a getPlanForDay request is answered: setPlan, setExMap, setLoading(false)
FetchResolves ==
    /\ \E i \in 1..Len(fetches) : \E body \in PlanAnswers(sheet, fetches[i]) :
          LET out == Sheets_getPlanForDay(Transported("answered", body))
          IN /\ fetches' = Without(fetches, i)
             /\ dayEv' = [NoDayEvent EXCEPT !.handler = "fetched", !.day = fetches[i]]
             /\ IF StoresResult(fetches[i], selectedDay)
                THEN /\ plan' = out.value.plan[2]
                     /\ exMap' = out.value.exercises[2]
                ELSE UNCHANGED <<plan, exMap>>
    /\ loading' = FALSE
    /\ blocks' = Blocks(plan', exMap')
    /\ cards' = DayCards(loading', blocks')
    /\ viewPc' = "rendered"
    /\ UNCHANGED <<variant, mockVars, cardioVars, iconVars, settingsVars, flowVars,
                   dayStatus, dayTimers, daySaves, dayEvents>>

\* a getPlanForDay request fails: the promise rejects and no callback runs
FetchRejects ==
    /\ \E i \in 1..Len(fetches) :
          /\ fetches' = Without(fetches, i)
          /\ dayEv' = [NoDayEvent EXCEPT !.handler = "fetchFailed", !.day = fetches[i]]
    /\ UNCHANGED <<variant, viewVars, mockVars, cardioVars, iconVars, settingsVars, flowVars,
                   loading, dayStatus, dayTimers, daySaves, dayEvents>>

\* onSave on the Mock Adapter: saveStrengthLog resolves in the same turn and
\* its callback sets the status; part_000 also starts the timer
OnSaveMock ==
    /\ adapterName = "mock"
    /\ ~loading
    /\ dayEvents < MaxDayEvents
    /\ \E exercise_id \in SaveIds, set_number \in 1..2 :
          LET dayRow == FindRow(plan, exercise_id)
              log == StrengthLogOf(dayRow, exercise_id, set_number, "8")
          IN IF dayRow = NoRow
             THEN /\ dayEv' = [NoDayEvent EXCEPT !.handler = "onSave",
                                                 !.log.exercise_id = exercise_id,
                                                 !.log.set_number = set_number]
                  /\ UNCHANGED <<MOCK_DB, dayStatus, dayTimers>>
             ELSE /\ dayEv' = [NoDayEvent EXCEPT !.handler = "onSave", !.log = log,
                                                 !.called = TRUE]
                  /\ MOCK_DB' = MockAdapter_saveStrengthLog(MOCK_DB, log).db
                  /\ dayStatus' = "Saved"
                  /\ dayTimers' = IF variant = "App" THEN dayTimers ELSE dayTimers + 1
    /\ dayEvents' = dayEvents + 1
    /\ UNCHANGED <<variant, viewVars, trace, cardioVars, iconVars, settingsVars, flowVars,
                   loading, fetches, daySaves>>

\* onSave on the Sheets Adapter: the saveStrengthLog request is sent;
\* part_000 also starts the timer
OnSaveSheets ==
    /\ adapterName = "sheets"
    /\ ~loading
    /\ dayEvents < MaxDayEvents
    /\ \E exercise_id \in SaveIds, set_number \in 1..2 :
          LET dayRow == FindRow(plan, exercise_id)
              log == StrengthLogOf(dayRow, exercise_id, set_number, "8")
          IN IF dayRow = NoRow
             THEN /\ dayEv' = [NoDayEvent EXCEPT !.handler = "onSave",
                                                 !.log.exercise_id = exercise_id,
                                                 !.log.set_number = set_number]
                  /\ UNCHANGED <<daySaves, dayTimers>>
             ELSE /\ dayEv' = [NoDayEvent EXCEPT !.handler = "onSave", !.log = log,
                                                 !.called = TRUE]
                  /\ daySaves' = daySaves + 1
                  /\ dayTimers' = IF variant = "App" THEN dayTimers ELSE dayTimers + 1
    /\ dayEvents' = dayEvents + 1
    /\ UNCHANGED <<variant, viewVars, mockVars, cardioVars, iconVars, settingsVars, flowVars,
                   loading, fetches, dayStatus>>

\* a saveStrengthLog request ends: resolved, its callback sets the status
SaveResolves ==
    /\ daySaves > 0
    /\ \E resp \in Responses(WriteBodies) :
          /\ dayStatus' = IF Sheets_write(resp).rejected THEN dayStatus ELSE "Saved"
          /\ dayEv' = [NoDayEvent EXCEPT
                          !.handler = IF Sheets_write(resp).rejected THEN "saveFailed"
                                      ELSE "saved"]
    /\ daySaves' = daySaves - 1
    /\ UNCHANGED <<variant, viewVars, mockVars, cardioVars, iconVars, settingsVars, flowVars,
                   loading, fetches, dayTimers, dayEvents>>

\* setTimeout(() => setStatus(""), 1500) of onSave fires
DayStatusTimeout ==
    /\ dayTimers > 0
    /\ dayTimers' = dayTimers - 1
    /\ dayStatus' = ""
    /\ dayEv' = [NoDayEvent EXCEPT !.handler = "timeout"]
    /\ UNCHANGED <<variant, viewVars, mockVars, cardioVars, iconVars, settingsVars, flowVars,
                   loading, fetches, daySaves, dayEvents>>

\* DayWorkoutView mounted on either backend, no day selected
InitDay ==
    /\ variant \in Variants
    /\ MOCK_DB = MockSeed
    /\ trace = <<>>
    /\ plan = <<>>
    /\ exMap = EmptyObject
    /\ blocks = <<>>
    /\ cards = <<>>
    /\ viewPc = "idle"
    /\ CardioViewInit
    /\ IconsIdle
    /\ localStorage = EmptyObject
    /\ sid = <<>>
    /\ adapterName \in {"mock", "sheets"}
    /\ sheetIdInput = <<>>
    /\ msgListeners = 0
    /\ popupsOpen = 0
    /\ lastAlert = ""
    /\ settingsEv = [handler |-> "", blocked |-> FALSE]
    /\ settingsLog = <<>>
    /\ tab = DailyTab
    /\ selectedDay = ""
    /\ aiQuery = <<>>
    /\ aiBusy = FALSE
    /\ aiPc = "idle"
    /\ aiEx = NoExercise
    /\ aiAddRes = Undefined
    /\ sheet = DaySheet
    /\ flowLog = <<>>
    /\ DayIdle

NextDay ==
    \/ SelectDayMock
    \/ SelectDaySheets
    \/ FetchResolves
    \/ FetchRejects
    \/ OnSaveMock
    \/ OnSaveSheets
    \/ SaveResolves
    \/ DayStatusTimeout

SpecDay == InitDay /\ [][NextDay]_vars

\* the same with every pending timer firing and every request answered in the end
SpecDayFair ==
    /\ SpecDay
    /\ WF_vars(DayStatusTimeout)
    /\ WF_vars(SaveResolves)
    /\ WF_vars(FetchResolves \/ FetchRejects)

(***************************************************************************)
(* CardioView.save on either backend (SpecCardioSave)                      *)
(***************************************************************************)
\* saveCardioLog requests one run sends through the Sheets Adapter
MaxCardioSaves == 2

\* bodies of the listCardio responses the view is handed
RefetchBodies ==
    {[NoBody EXCEPT !.plan = JArray(CardioPlanA), !.cardio = JArray(CardioPlanA),
                    !.logs = JArray(<<CHOOSE x \in CardioLogInputs : x.activity = "Run">>)],
     [NoBody EXCEPT !.plan = JArray(CardioPlanB), !.cardio = JArray(CardioPlanB)]}

\* save() going on whatever the result says
SaveSucceededAlways(res) == TRUE

\* if (res.ok)
SaveSucceeded(res) == JTruthy(res.ok)

\* the saveCardioLog calls in a trace
SaveCalls(tr) == SelectSeq(tr, LAMBDA e : e.op = "saveCardioLog")

\* the mount effect on the Sheets Adapter: listCardio is answered
CardioLoadedSheets ==
    /\ adapterName = "sheets"
    /\ trace = <<>>
    /\ \E resp \in Responses(RefetchBodies) :
          LET out == Sheets_listCardio(resp)
          IN /\ trace' = Append(trace, SheetsEntry("listCardio", "", resp, out))
             /\ rows' = IF out.rejected THEN rows ELSE out.value.plan[2]
             /\ logs' = IF out.rejected THEN logs ELSE out.value.logs[2]
    /\ logList' = CardioLogItems(logs')
    /\ UNCHANGED <<variant, viewVars, MOCK_DB, iconVars, settingsVars, flowVars, dayVars,
                   newLog, cardioStatus, statusTimers, ev, cardioRefetches>>

\* save() on the Sheets Adapter up to its second await: saveCardioLog is
\* answered and, the result being ok, the status is set and listCardio is sent
SaveSheets ==
    /\ adapterName = "sheets"
    /\ Len(SaveCalls(trace)) < MaxCardioSaves
    /\ \E resp \in Responses(WriteBodies) :
          LET out == Sheets_write(resp)
          IN /\ trace' = Append(trace, SheetsEntry("saveCardioLog", newLog, resp, out))
             /\ IF ~out.rejected /\ SaveSucceeded(out.value)
                THEN /\ cardioStatus' = "Saved"
                     /\ cardioRefetches' = cardioRefetches + 1
                ELSE UNCHANGED <<cardioStatus, cardioRefetches>>
    /\ logList' = CardioLogItems(logs)
    /\ UNCHANGED <<variant, viewVars, MOCK_DB, iconVars, settingsVars, flowVars, dayVars,
                   rows, logs, newLog, statusTimers, ev>>

\* save() on the Sheets Adapter from its second await: listCardio is answered,
\* the lists are replaced and part_000 starts the timer
RefetchDone ==
    /\ cardioRefetches > 0
    /\ \E resp \in Responses(RefetchBodies) :
          LET out == Sheets_listCardio(resp)
          IN /\ trace' = Append(trace, SheetsEntry("listCardio", "", resp, out))
             /\ rows' = IF out.rejected THEN rows ELSE out.value.plan[2]
             /\ logs' = IF out.rejected THEN logs ELSE out.value.logs[2]
             /\ statusTimers' = IF out.rejected \/ variant = "App" THEN statusTimers
                                ELSE statusTimers + 1
    /\ cardioRefetches' = cardioRefetches - 1
    /\ logList' = CardioLogItems(logs')
    /\ UNCHANGED <<variant, viewVars, MOCK_DB, iconVars, settingsVars, flowVars, dayVars,
                   newLog, cardioStatus, ev>>

\* CardioView mounted on either backend
InitCardioSave ==
    /\ variant \in Variants
    /\ MOCK_DB = MockSeed
    /\ trace = <<>>
    /\ plan = <<>>
    /\ exMap = EmptyObject
    /\ blocks = <<>>
    /\ cards = <<>>
    /\ viewPc = "idle"
    /\ CardioViewInit
    /\ IconsIdle
    /\ localStorage = EmptyObject
    /\ sid = <<>>
    /\ adapterName \in {"mock", "sheets"}
    /\ sheetIdInput = <<>>
    /\ msgListeners = 0
    /\ popupsOpen = 0
    /\ lastAlert = ""
    /\ settingsEv = [handler |-> "", blocked |-> FALSE]
    /\ settingsLog = <<>>
    /\ tab = DailyTab
    /\ FlowIdle
    /\ DayIdle

NextCardioSave ==
    \/ CardioLoaded
    \/ CardioLoadedSheets
    \/ EditActivity
    \/ Save
    \/ SaveSheets
    \/ RefetchDone
    \/ StatusTimeout

SpecCardioSave == InitCardioSave /\ [][NextCardioSave]_vars

(***************************************************************************)
(* SpecView: a fetch has stored any plan and exercise map; the view        *)
(* derives its blocks and renders them.                                    *)
(***************************************************************************)
\* (the code of the view is the same in both application files)
InitView ==
    /\ variant = "part_000"
    /\ plan \in PlanInputs
    /\ exMap \in ExMapInputs
    /\ blocks = <<>>
    /\ cards = <<>>
    /\ viewPc = "loaded"
    /\ MOCK_DB = MockSeed
    /\ trace = <<>>
    /\ CardioViewInit
    /\ IconsIdle
    /\ SettingsIdle
    /\ FlowIdle
    /\ DayIdle

Render ==
    /\ viewPc = "loaded"
    /\ blocks' = Blocks(plan, exMap)
    /\ cards' = [i \in 1..Len(blocks') |-> Block(blocks'[i])]
    /\ viewPc' = "rendered"
    /\ UNCHANGED <<variant, plan, exMap, mockVars, cardioVars, iconVars, settingsVars, flowVars, dayVars>>

NextView == Render

SpecView == InitView /\ [][NextView]_vars

(***************************************************************************)
(* Claims about the block grouping and the cards (SpecView)                *)
(***************************************************************************)
\* every order the rows of s can arrive in
Perms(s) ==
    LET n == Len(s)
        bij == {f \in [1..n -> 1..n] : \A a, b \in 1..n : a /= b => f[a] /= f[b]}
    IN {[i \in 1..n |-> s[f[i]]] : f \in bij}

NamesIn(rs) == {rs[i].block_name : i \in 1..Len(rs)}

RowsOfBlock(rs, b) == {i \in 1..Len(rs) : rs[i].block_name = b}

MaxSetNumber(rs, b) ==
    CHOOSE m \in {rs[i].set_number : i \in RowsOfBlock(rs, b)} :
        \A i \in RowsOfBlock(rs, b) : rs[i].set_number <= m

BlockIndexes(bs, b) == {i \in 1..Len(bs) : bs[i].name = b}

SetCountIsMax(bs, rs) ==
    \A b \in NamesIn(rs) :
        /\ Cardinality(BlockIndexes(bs, b)) = 1
        /\ \A i \in BlockIndexes(bs, b) : bs[i].setCount = MaxSetNumber(rs, b)

\* C1: for every block_name occurring in the plan rows, the derived block's
\* set count is the maximum set_number among the rows of that block_name,
\* in whatever order the rows arrive.
C1_SetCountIsMaxSetNumber ==
    viewPc = "rendered" =>
        /\ SetCountIsMax(blocks, plan)
        /\ \A q \in Perms(plan) : SetCountIsMax(Blocks(q, exMap), plan)

\* C1 witness: a block whose rows arrive with the larger set_number first.
C1_Witness ==
    /\ viewPc = "rendered"
    /\ Len(plan) = 2
    /\ plan[1].block_name = plan[2].block_name
    /\ plan[1].set_number = 3
    /\ plan[2].set_number = 1
    /\ Len(blocks) = 1
    /\ blocks[1].setCount = 3

\* C2 as stated: the same rows in any permutation yield the same derived
\* blocks (sequence, set counts, exercise lists, prescribed-reps overrides).
C2_PermutationYieldsSameBlocks ==
    viewPc = "rendered" => \A q \in Perms(plan) : Blocks(q, exMap) = blocks

Range(s) == {s[i] : i \in 1..Len(s)}

\* every block_name carries one block_order and no two block_names share one
OrdersSeparateBlocks(rs) ==
    \A i, j \in 1..Len(rs) :
        (rs[i].block_name = rs[j].block_name) <=> (rs[i].block_order = rs[j].block_order)

\* the rows of block b agree on the non-empty prescribed_reps of each exercise
OverridesAgree(rs, b) ==
    \A i, j \in RowsOfBlock(rs, b) :
        (/\ rs[i].exercise_id = rs[j].exercise_id
         /\ Truthy(rs[i].prescribed_reps)
         /\ Truthy(rs[j].prescribed_reps))
        => rs[i].prescribed_reps = rs[j].prescribed_reps

\* C2 amended: any permutation of the rows yields the same set of blocks and,
\* per block, the same set count and the same exercises; the block sequence is
\* the same when block_order separates the blocks, and a block's overrides are
\* the same when its rows agree on each exercise's non-empty prescribed_reps.
C2_PermutationAmended ==
    viewPc = "rendered" =>
        \A q \in Perms(plan) :
            LET bq == Blocks(q, exMap) IN
            /\ Len(bq) = Len(blocks)
            /\ {bq[i].name : i \in 1..Len(bq)} = {blocks[i].name : i \in 1..Len(blocks)}
            /\ \A i \in 1..Len(bq) : \A j \in 1..Len(blocks) :
                  bq[i].name = blocks[j].name =>
                      /\ bq[i].setCount = blocks[j].setCount
                      /\ Range(bq[i].exercises) = Range(blocks[j].exercises)
                      /\ Len(bq[i].exercises) = Len(blocks[j].exercises)
                      /\ OverridesAgree(plan, blocks[j].name) =>
                             bq[i].prescribed = blocks[j].prescribed
            /\ OrdersSeparateBlocks(plan) =>
                  \A i \in 1..Len(bq) :
                      /\ bq[i].name = blocks[i].name
                      /\ \A j \in 1..Len(bq) :
                            i < j => \A r, t \in 1..Len(plan) :
                                (plan[r].block_name = bq[i].name /\ plan[t].block_name = bq[j].name)
                                => plan[r].block_order < plan[t].block_order

\* C2 witness: two blocks whose rows arrive in descending block_order and are
\* emitted in ascending block_order.
C2_Witness ==
    /\ viewPc = "rendered"
    /\ Len(plan) = 2
    /\ plan[1].block_name /= plan[2].block_name
    /\ plan[1].block_order = 2
    /\ plan[2].block_order = 1
    /\ plan[1].set_number = 1
    /\ plan[2].set_number = 2
    /\ Len(blocks) = 2
    /\ blocks[1].name = plan[2].block_name
    /\ blocks[2].name = plan[1].block_name

\* C3: a block with set count N and k exercises renders exactly N*k cards,
\* one for each (exercise, set_number) pair with set_number in 1..N, whether
\* or not a plan row exists for the pair.
C3_CrossProductCards ==
    viewPc = "rendered" =>
        /\ Len(cards) = Len(blocks)
        /\ \A i \in 1..Len(blocks) :
              LET b == blocks[i]
                  cs == cards[i]
              IN /\ Len(cs) = b.setCount * Len(b.exercises)
                 /\ \A c \in 1..Len(cs) : cs[c].setNumber \in 1..b.setCount
                 /\ \A j \in 1..Len(b.exercises) : \A s \in 1..b.setCount :
                       Cardinality({c \in 1..Len(cs) :
                           cs[c].exercise = b.exercises[j] /\ cs[c].setNumber = s}) = 1

\* C3 witness: set count 3 and two exercises give six cards from two plan rows.
C3_Witness ==
    /\ viewPc = "rendered"
    /\ Len(plan) = 2
    /\ Len(blocks) = 1
    /\ blocks[1].setCount = 3
    /\ Len(blocks[1].exercises) = 2
    /\ Len(cards[1]) = 6

\* the non-empty prescribed_reps that the rows of block b carry for exercise id
OverridesOf(rs, b, id) ==
    {rs[i].prescribed_reps : i \in {r \in RowsOfBlock(rs, b) :
        rs[r].exercise_id = id /\ Truthy(rs[r].prescribed_reps)}}

\* C4: a card's prescription text is the block-level override of its exercise
\* when the block's rows carry a non-empty prescribed_reps for it, else the
\* exercise's default_reps when it has a non-empty one, else "as assigned".
C4_PrescribedPrecedence ==
    viewPc = "rendered" =>
        \A i \in 1..Len(blocks) : \A c \in 1..Len(cards[i]) :
            LET card == cards[i][c]
                ov == OverridesOf(plan, blocks[i].name, card.exercise.id)
            IN IF ov /= {} THEN card.prescribed \in ov
               ELSE IF Truthy(card.exercise.default_reps)
                    THEN card.prescribed = card.exercise.default_reps
                    ELSE card.prescribed = "as assigned"

\* C4 witness: default_reps "8 to 10", override "12": the card reads "12".
C4_Witness ==
    /\ viewPc = "rendered"
    /\ Len(blocks) >= 1
    /\ Len(cards[1]) >= 1
    /\ cards[1][1].exercise.default_reps = "8 to 10"
    /\ OverridesOf(plan, blocks[1].name, cards[1][1].exercise.id) = {"12"}
    /\ cards[1][1].prescribed = "12"

(***************************************************************************)
(* Claims about the Mock Adapter (SpecMock)                                *)
(***************************************************************************)
HasProperty(obj, k) == PropertyKey(k) \in DOMAIN obj

Count(seq, x) == Cardinality({i \in 1..Len(seq) : seq[i] = x})

\* the catalogue entry `stored` is the exercise `ex` handed to addExercise
IsAddedExercise(stored, ex) ==
    /\ stored.name = ex.name
    /\ stored.default_reps = ex.default_reps

\* calls i, i+1, i+2 are addExercise without an id, addPlanRow with the
\* returned exercise_id, and getPlanForDay of that row's day
IsRoundTrip(i) ==
    /\ i + 2 <= Len(trace)
    /\ trace[i].op = "addExercise"
    /\ trace[i].arg.id = Undefined
    /\ trace[i + 1].op = "addPlanRow"
    /\ trace[i + 1].arg.exercise_id = trace[i].result.exercise_id
    /\ trace[i + 2].op = "getPlanForDay"
    /\ trace[i + 2].arg = trace[i + 1].arg.day_id

C6_AddExerciseAssignsId ==
    (Len(trace) > 0 /\ trace[Len(trace)].op = "addExercise") =>
        LET ex == trace[Len(trace)].arg
            r == trace[Len(trace)].result
        IN /\ r.ok
           /\ Truthy(r.exercise_id)
           /\ ex.id /= Undefined => r.exercise_id = ex.id
           /\ r.exercise_id \in DOMAIN MOCK_DB.exercises
           /\ MOCK_DB.exercises[r.exercise_id] = [ex EXCEPT !.id = r.exercise_id]

\* C7: getPlanForDay(d) returns exactly the stored plan rows whose day_id is d,
\* each as often as it is stored, and no row of another day.
C7_DayFilterExact ==
    (Len(trace) > 0 /\ trace[Len(trace)].op = "getPlanForDay") =>
        LET d == trace[Len(trace)].arg
            got == trace[Len(trace)].result.plan
        IN /\ \A i \in 1..Len(got) : got[i].day_id = d
           /\ \A i \in 1..Len(MOCK_DB.plan) :
                 MOCK_DB.plan[i].day_id = d =>
                     Count(got, MOCK_DB.plan[i]) = Count(MOCK_DB.plan, MOCK_DB.plan[i])
           /\ \A i \in 1..Len(got) : Count(got, got[i]) = Count(MOCK_DB.plan, got[i])

\* C7 witness: rows of "Day 1" and "Day 2" are stored and getPlanForDay("Day 1")
\* has returned the seven "Day 1" rows.
C7_Witness ==
    /\ Len(trace) = 3
    /\ trace[3].op = "getPlanForDay"
    /\ trace[3].arg = "Day 1"
    /\ \E i \in 1..Len(MOCK_DB.plan) : MOCK_DB.plan[i].day_id = "Day 2"
    /\ Len(MOCK_DB.plan) = 8
    /\ Len(trace[3].result.plan) = 7

\* a collection with everything it held still in place at the front
Extends(after, before) ==
    /\ Len(before) <= Len(after)
    /\ SubSeq(after, 1, Len(before)) = before

\* C22: on the Mock Adapter every saveStrengthLog, saveCardioLog and
\* addPlanRow call returns ok = true and appends exactly the given record at
\* the end of its own collection; no call of any operation removes or rewrites
\* an element of the strength logs, the cardio logs or the plan, and every call
\* returns a result.
C22_MockAppendOnly ==
    [][LET e == trace'[Len(trace')] IN
       /\ Len(trace') = Len(trace) + 1
       /\ e.op = "saveStrengthLog" =>
              /\ e.result.ok = TRUE
              /\ MOCK_DB'.strengthLogs = Append(MOCK_DB.strengthLogs, e.arg)
       /\ e.op = "saveCardioLog" =>
              /\ e.result.ok = TRUE
              /\ MOCK_DB'.cardioLogs = Append(MOCK_DB.cardioLogs, e.arg)
       /\ e.op = "addPlanRow" =>
              /\ e.result.ok = TRUE
              /\ MOCK_DB'.plan = Append(MOCK_DB.plan, e.arg)
       /\ Extends(MOCK_DB'.strengthLogs, MOCK_DB.strengthLogs)
       /\ Extends(MOCK_DB'.cardioLogs, MOCK_DB.cardioLogs)
       /\ Extends(MOCK_DB'.plan, MOCK_DB.plan)]_vars

\* C22 witness: two different cardio logs and a plan row were written, and
\* each sits where it was appended, behind what the collection held before.
C22_Witness ==
    /\ Len(trace) = 3
    /\ trace[1].op = "saveCardioLog"
    /\ trace[2].op = "saveCardioLog"
    /\ trace[3].op = "addPlanRow"
    /\ trace[1].arg /= trace[2].arg
    /\ MOCK_DB.cardioLogs = MockSeed.cardioLogs \o <<trace[1].arg, trace[2].arg>>
    /\ MOCK_DB.plan = Append(MockSeed.plan, trace[3].arg)

\* C16 as stated: after any sequence of Mock Adapter operations, the exercise
\* map getPlanForDay(d) returns has an entry for the exercise_id of every plan
\* row returned with it.
C16_ExerciseMapCoversPlan ==
    \A i \in 1..Len(trace) :
        trace[i].op = "getPlanForDay" =>
            \A j \in 1..Len(trace[i].result.plan) :
                HasProperty(trace[i].result.exercises, trace[i].result.plan[j].exercise_id)

(***************************************************************************)
(* Claims about the Cardio View (SpecCardioForm, SpecCardio)               *)
(***************************************************************************)
\* the text has a character that is no digit, space or sign
NonNumericText(t) == \E i \in 1..Len(t) : t[i] \notin Digits \cup {" ", "+", "-"}

\* C8: an edit of a numeric field of the new-log form stores the parsed number
\* when the typed text parses to a non-zero number and absent otherwise
\* (non-numeric text and "0" leave the field absent, never zero; "45" stores
\* 45); every edit leaves the other fields of the form record unchanged.
C8_NumericFieldParsing ==
    [][(newLog' /= newLog \/ ev' /= ev) =>
         LET f == ev'.field
             t == ev'.value
         IN /\ f \in NumericFields \cup {"date_iso", "activity"}
            /\ \A g \in DOMAIN newLog : g /= f => newLog'[g] = newLog[g]
            /\ f \in NumericFields =>
                  /\ newLog'[f] = IF Number(t).nan \/ Number(t).val = 0
                                  THEN <<>> ELSE <<Number(t).val>>
                  /\ newLog'[f] /= <<0>>
                  /\ t = <<"4", "5">> => newLog'[f] = <<45>>
                  /\ t = <<"0">> => newLog'[f] = <<>>
                  /\ NonNumericText(t) => newLog'[f] = <<>>
      ]_vars

\* C8 witness: non-numeric text was typed into the duration field, which is
\* absent, while the rpe field keeps the 45 typed before.
C8_Witness ==
    /\ ev = [field |-> "duration_min", value |-> <<"4", "a">>]
    /\ newLog.duration_min = <<>>
    /\ newLog.rpe = <<45>>

\* the logs saved so far, in the order of the saveCardioLog calls
SavedLogs ==
    LET saves == SelectSeq(trace, LAMBDA e : e.op = "saveCardioLog")
    IN [i \in 1..Len(saves) |-> saves[i].arg]

\* C9: the listed logs are the exact reverse of the logs as the adapter
\* returned them; after logs are saved through the Mock Adapter and refetched,
\* the list shows them last saved first, whatever their date_iso.
C9_LogsListedInReverse ==
    /\ Len(logList) = Len(logs)
    /\ \A i \in 1..Len(logs) : logList[i] = logs[Len(logs) + 1 - i]
    /\ trace /= <<>> =>
          /\ trace[Len(trace)].op = "listCardio"
          /\ logs = trace[Len(trace)].result.logs
          /\ Len(logList) = Len(SavedLogs)
          /\ \A i \in 1..Len(SavedLogs) : logList[i] = SavedLogs[Len(SavedLogs) + 1 - i]

\* C9 witness: A, B, C were saved with dates 08-20, 08-21, 08-20 and are
\* listed C, B, A.
C9_Witness ==
    /\ Len(SavedLogs) = 3
    /\ SavedLogs[1].date_iso = "2025-08-20" /\ SavedLogs[1].activity = "Ride"
    /\ SavedLogs[2].date_iso = "2025-08-21" /\ SavedLogs[2].activity = "Run"
    /\ SavedLogs[3].date_iso = "2025-08-20" /\ SavedLogs[3].activity = "Run"
    /\ logList = <<SavedLogs[3], SavedLogs[2], SavedLogs[1]>>

(***************************************************************************)
(* Claims about the icon generator (SpecIcons)                             *)
(***************************************************************************)
\* C10: renderPadded's inner box is size * 0.76 rounded to the nearest pixel
\* and is placed centred on the size x size canvas: inside the canvas, with
\* opposite margins differing by at most one pixel; for size 512 the inner box
\* is 389 pixels with a margin of 61 or 62 pixels on each side.
C10_IconPadding ==
    iconPc = "done" =>
        LET size == iconJob.size
            right == iconOut.width - iconOut.left - iconOut.inner
            bottom == iconOut.height - iconOut.top - iconOut.inner
        IN /\ iconOut.width = size /\ iconOut.height = size
           /\ 100 * iconOut.inner - 50 <= 76 * size
           /\ 76 * size < 100 * iconOut.inner + 50
           /\ iconOut.left >= 0 /\ right >= 0 /\ iconOut.top >= 0 /\ bottom >= 0
           /\ iconOut.left - right \in {-1, 0, 1}
           /\ iconOut.top - bottom \in {-1, 0, 1}
           /\ size = 512 =>
                 /\ iconOut.inner = 389
                 /\ {iconOut.left, right, iconOut.top, bottom} \subseteq {61, 62}

\* C10 witness: the 512 pixel job is rendered with a 389 pixel inner box.
C10_Witness ==
    /\ iconPc = "done"
    /\ iconJob.size = 512
    /\ iconOut.inner = 389
    /\ iconOut.left + iconOut.inner <= 512

(***************************************************************************)
(* Claims about the Google Sheets Adapter (SpecSheets)                     *)
(***************************************************************************)
\* the response arrived with a success status and a JSON body
IsSuccessResponse(resp) == resp.net /\ resp.ok /\ resp.json

\* C13 as stated: listCardio returns the same plan list for a response that
\* carries the cardio plan under key `cardio` as for one that carries the same
\* list under key `plan`; with both keys present `plan` is preferred; an
\* absent `logs` key yields an empty log list.
C13_ListCardioKeys ==
    \A i \in 1..Len(trace) :
        (trace[i].op = "listCardio" /\ IsSuccessResponse(trace[i].response)) =>
            LET body == trace[i].response.body
                out == trace[i].outcome
            IN /\ ~out.rejected
               /\ body.plan[1] = "array" => out.value.plan = body.plan
               /\ (body.plan[1] = "undefined" /\ body.cardio[1] = "array") =>
                      out.value.plan = body.cardio
               /\ body.logs[1] = "undefined" => out.value.logs = JArray(<<>>)
               /\ \A j \in 1..Len(trace) :
                     (/\ trace[j].op = "listCardio"
                      /\ IsSuccessResponse(trace[j].response)
                      /\ body.plan[1] = "undefined"
                      /\ trace[j].response.body.cardio[1] = "undefined"
                      /\ trace[j].response.body.plan = body.cardio)
                     => trace[j].outcome.value.plan = out.value.plan

\* C17 as stated: a Sheets Adapter operation whose HTTP response has a failure
\* status ends rejected and hands no result to its caller.
C17_FailureStatusRejects ==
    \A i \in 1..Len(trace) :
        (trace[i].response.net /\ ~trace[i].response.ok) => trace[i].outcome.rejected

\* C18 as stated: for an exercise sent with an id, addExercise resolves with
\* the exercise_id the write response echoes when it carries one, and with the
\* id sent in the payload when the response omits exercise_id.
C18_AddExerciseIdFallback ==
    \A i \in 1..Len(trace) :
        (/\ trace[i].op = "addExercise"
         /\ IsSuccessResponse(trace[i].response)
         /\ trace[i].response.body.ok = JBoolean(TRUE)
         /\ trace[i].arg.id /= Undefined) =>
            LET echoed == trace[i].response.body.exercise_id
                out == trace[i].outcome
            IN /\ ~out.rejected
               /\ out.value.exercise_id =
                      (IF echoed[1] = "undefined" THEN JString(trace[i].arg.id) ELSE echoed)

(***************************************************************************)
(* Claims about the Settings view (SpecSettings)                           *)
(***************************************************************************)
\* the step dispatches a message event
IsMessageStep ==
    /\ Len(settingsLog') = Len(settingsLog) + 1
    /\ settingsLog'[Len(settingsLog')].kind = "message"

\* the data of the message event the step dispatches
MessageData == settingsLog'[Len(settingsLog')].data

\* C14: once createBackend has registered its listener, of two qualifying
\* provisioning messages the first updates the persisted spreadsheet id and
\* the active backend and the second changes nothing: after a message event
\* no listener is registered any more, and a message that finds no listener
\* leaves the persisted id, the shell's id, the input and the backend alone.
C14_SingleConsumption ==
    [][IsMessageStep =>
          /\ msgListeners' = 0
          /\ msgListeners = 0 =>
                UNCHANGED <<localStorage, sid, adapterName, sheetIdInput, popupsOpen>>
          /\ (/\ Qualifies(MessageData)
              /\ settingsLog /= <<>>
              /\ settingsLog[Len(settingsLog)].kind = "listener") =>
                /\ StoredSheetId(localStorage') = MessageData.sheetId
                /\ adapterName' = "sheets"]_vars

\* C14 witness: one createBackend, then two qualifying messages with different
\* sheet ids; the first one's id is the persisted one.
C14_Witness ==
    /\ settingsLog = <<Registered,
                       Dispatched([isObject |-> TRUE, type |-> "wt/provisioned",
                                   sheetId |-> <<"s">>], 1),
                       Dispatched([isObject |-> TRUE, type |-> "wt/provisioned",
                                   sheetId |-> <<"t">>], 0)>>
    /\ StoredSheetId(localStorage) = <<"s">>
    /\ adapterName = "sheets"
    /\ msgListeners = 0

\* a listener has been registered and no qualifying message has arrived since
AwaitsProvisioning(log) ==
    \E i \in 1..Len(log) :
        /\ log[i].kind = "listener"
        /\ \A j \in (i + 1)..Len(log) :
              ~(log[j].kind = "message" /\ Qualifies(log[j].data))

\* C15 as stated: once the popup is open, the first qualifying message to
\* arrive is consumed, whatever messages that do not qualify came before it:
\* its sheetId becomes the persisted and the shell's spreadsheet id and the
\* active backend becomes sheets.
C15_FirstQualifyingConsumed ==
    [][(IsMessageStep /\ Qualifies(MessageData) /\ AwaitsProvisioning(settingsLog)) =>
          /\ StoredSheetId(localStorage') = MessageData.sheetId
          /\ CurrentSheetId' = MessageData.sheetId
          /\ adapterName' = "sheets"]_vars

C20_UseTypedSheetSets ==
    [][(settingsEv'.handler = "useTypedSheet" /\ Trim(sheetIdInput) /= <<>>) =>
          /\ SHEET_ID_KEY \in DOMAIN localStorage'
          /\ StoredSheetId(localStorage') = Trim(sheetIdInput)
          /\ CurrentSheetId' = Trim(sheetIdInput)
          /\ adapterName' = "sheets"]_vars

\* C20 witness: " a " was typed with nothing persisted, and "Use this Sheet"
\* stored "a" and switched to sheets.
C20_Witness ==
    /\ settingsEv.handler = "useTypedSheet"
    /\ sheetIdInput = <<" ", "a", " ">>
    /\ StoredSheetId(localStorage) = <<"a">>
    /\ CurrentSheetId = <<"a">>
    /\ adapterName = "sheets"
    /\ lastAlert = ""

\* C21: when the application starts, sheets is the active backend exactly
\* when a non-empty spreadsheet id is persisted under wt_sheet_id and mock is
\* otherwise, the shell's spreadsheet id equals the persisted one, and the
\* Daily Workout tab is the active one.
C21_StartupBackend ==
    settingsEv.handler = "" =>
        /\ adapterName = (IF StoredSheetId(localStorage) /= <<>> THEN "sheets" ELSE "mock")
        /\ CurrentSheetId = StoredSheetId(localStorage)
        /\ tab \in {"daily", "Daily Workout"}

(***************************************************************************)
(* Claims about switching the backend (SpecSwitch)                         *)
(***************************************************************************)
\* what a write call stored is in the data the Mock Adapter over db returns
\* (strength logs have no read operation: they are looked up in db itself)
StillReturned(db, e) ==
    /\ e.op = "saveStrengthLog" => \E k \in 1..Len(db.strengthLogs) : db.strengthLogs[k] = e.arg
    /\ e.op = "saveCardioLog" =>
           LET listed == MockAdapter_listCardio(db).result.logs
           IN \E k \in 1..Len(listed) : listed[k] = e.arg
    /\ e.op = "addPlanRow" =>
           LET got == GetPlanForDay(db, e.arg.day_id).result.plan
           IN \E k \in 1..Len(got) : got[k] = e.arg
    /\ e.op = "addExercise" =>
           LET got == GetPlanForDay(db, "Day 1").result.exercises
           IN /\ PropertyKey(e.result.exercise_id) \in DOMAIN got
              /\ got[PropertyKey(e.result.exercise_id)].name = e.arg.name

\* C23: switching the active backend, away from mock or back to it, does not
\* reset the mock data: the data is the same after the switch, and every
\* exercise, plan row, strength log and cardio log written before is returned
\* by the Mock Adapter constructed after it.
C23_SwitchKeepsMockData ==
    [][adapterName' /= adapterName =>
          /\ MOCK_DB' = MOCK_DB
          /\ \A i \in 1..Len(trace) : StillReturned(MOCK_DB', trace[i])]_vars

\* C23 witness: a plan row was appended on mock, the backend went to sheets
\* and back to mock, and the Mock Adapter returns the row.
C23_Witness ==
    /\ Len(trace) = 3
    /\ trace[1].op = "addPlanRow"
    /\ trace[2] = Entry("constructor", "sheets", <<>>)
    /\ trace[3] = Entry("constructor", "mock", <<>>)
    /\ adapterName = "mock"
    /\ MOCK_DB.plan /= MockSeed.plan
    /\ StillReturned(MOCK_DB, trace[1])

(***************************************************************************)
(* Claims about the ad hoc alternative-exercise flow (SpecAdHoc)           *)
(***************************************************************************)
\* the flows that ended at a failed call
FailedAt(call) == {i \in 1..Len(flowLog) : flowLog[i].ended = call}

\* the catalogue holds the exercise a flow wrote
InCatalogue(f) ==
    \E k \in 1..Len(sheet.exercises) :
        /\ sheet.exercises[k].id = f.key
        /\ sheet.exercises[k].name = f.ex.name

\* the plan holds the row a flow appended
InPlan(f) == \E k \in 1..Len(sheet.plan) : sheet.plan[k] = StoredRow(f.row)

\* C11: the flow has no rollback. Once addExercise succeeded and the plan-row
\* append failed, the exercise addExercise wrote is in the catalogue from then
\* on; once the plan row was appended and the reload failed, the exercise and
\* the plan row are both in place from then on.
C11_NoRollback ==
    /\ \A i \in FailedAt("addPlanRow") : InCatalogue(flowLog[i])
    /\ \A i \in FailedAt("reload") : InCatalogue(flowLog[i]) /\ InPlan(flowLog[i])

\* one flow failed at the plan-row append, a later one at the reload, and what
\* they wrote is still there
C11_Witness ==
    /\ Len(flowLog) = 2
    /\ flowLog[1].ended = "addPlanRow"
    /\ flowLog[2].ended = "reload"
    /\ InCatalogue(flowLog[1])
    /\ InCatalogue(flowLog[2])
    /\ InPlan(flowLog[2])

\* C12: the busy flag is true exactly while a call of a started flow has not
\* resolved: it is false once the flow finished, by success or by a failure of
\* the lookup, addExercise, addPlanRow or the reload, and true while the flow
\* awaits one of them.
C12_BusyFlagCleared ==
    /\ aiBusy = (aiPc /= "idle")
    /\ aiPc = "idle" => \A i \in 1..Len(flowLog) : flowLog[i].ended /= ""
    /\ aiPc /= "idle" => flowLog /= <<>> /\ flowLog[Len(flowLog)].ended = ""

\* a flow ended by a failure and a later one completed, and the flag is false
C12_Witness ==
    /\ Len(flowLog) = 2
    /\ flowLog[1].ended \in {"lookup", "addExercise", "addPlanRow", "reload"}
    /\ flowLog[2].ended = "ok"
    /\ ~aiBusy

(***************************************************************************)
(* Claims about the Day Workout View (SpecDay)                             *)
(***************************************************************************)
\* the step is the answer to a getPlanForDay request
IsFetchedStep == Len(fetches') < Len(fetches) /\ dayEv'.handler = "fetched"

C25_LoadingWhileFetching == fetches /= <<>> => loading

\* the step is an invocation of onSave
IsOnSaveStep == dayEvents' = dayEvents + 1 /\ dayEv'.handler = "onSave"

\* the rows of the loaded plan with that exercise
RowsWith(exercise_id) == {k \in 1..Len(plan) : plan[k].exercise_id = exercise_id}

C27_SavedIsTransient == (dayStatus = "Saved") ~> (dayStatus = "")

(***************************************************************************)
(* Claims about CardioView.save (SpecCardioSave)                           *)
(***************************************************************************)
\* C28: save calls saveCardioLog with the form record and leaves the form
\* record alone; the result being ok = true it shows "Saved" and refetches,
\* and the answered refetch replaces the displayed plan and log lists; the
\* result being ok = false it shows no status, refetches nothing and leaves
\* the displayed lists unchanged.
C28_SaveByResult ==
    [][LET n == Len(trace)
           e == trace'[Len(trace')]
       IN /\ (Len(trace') = n + 2 /\ trace'[n + 1].op = "saveCardioLog") =>
                 /\ trace'[n + 1].arg = newLog
                 /\ trace'[n + 1].result.ok
                 /\ cardioStatus' = "Saved"
                 /\ rows' = e.result.plan
                 /\ logs' = e.result.logs
                 /\ newLog' = newLog
          /\ (Len(trace') = n + 1 /\ adapterName = "sheets" /\ e.op = "saveCardioLog") =>
                 /\ e.arg = newLog
                 /\ newLog' = newLog
                 /\ (~e.outcome.rejected /\ e.outcome.value.ok = JBoolean(TRUE)) =>
                        /\ cardioStatus' = "Saved"
                        /\ cardioRefetches' = cardioRefetches + 1
                 /\ (~e.outcome.rejected /\ e.outcome.value.ok = JBoolean(FALSE)) =>
                        UNCHANGED <<cardioStatus, cardioRefetches, rows, logs, logList,
                                    statusTimers>>
          /\ (Len(trace') = n + 1 /\ cardioRefetches' = cardioRefetches - 1
                 /\ ~e.outcome.rejected) =>
                 /\ rows' = e.outcome.value.plan[2]
                 /\ logs' = e.outcome.value.logs[2]
                 /\ newLog' = newLog]_vars

\* C28 witness: a save was answered ok = true and its refetch filled the
\* lists; the next save was answered ok = false and left them and the status
\* as they were, with no refetch in flight.
C28_Witness ==
    /\ adapterName = "sheets"
    /\ Len(trace) = 3
    /\ trace[1].op = "saveCardioLog"
    /\ trace[2].op = "listCardio"
    /\ trace[3].op = "saveCardioLog"
    /\ ~trace[3].outcome.rejected
    /\ trace[3].outcome.value.ok = JBoolean(FALSE)
    /\ rows /= <<>>
    /\ rows = trace[2].outcome.value.plan[2]
    /\ cardioRefetches = 0
    /\ cardioStatus = ""

(***************************************************************************)
(* Claims about the order and the exclusion of ad hoc flows (SpecAdHoc)    *)
(***************************************************************************)
\* the row step 2 is to send for the flow as it stands after a step
ExpectedRow ==
    [day_id |-> selectedDay, block_order |-> 99, block_name |-> "Ad hoc alternatives",
     set_number |-> 1, exercise_id |-> aiAddRes', prescribed_reps |-> aiEx'.default_reps]

C30_OneFlowAtATime ==
    [][/\ Len(flowLog') > Len(flowLog) =>
             /\ ~aiBusy
             /\ aiPc = "idle"
             /\ \A i \in 1..Len(flowLog) : flowLog[i].ended /= ""
             /\ selectedDay /= ""
             /\ Trim(aiQuery) /= <<>>
       /\ (dayEv' /= dayEv /\ dayEv'.handler = "addAlternativeExercise"
             /\ (selectedDay = "" \/ Trim(aiQuery) = <<>>)) =>
             /\ ~dayEv'.called
             /\ UNCHANGED <<viewVars, mockVars, flowVars, loading, fetches, dayStatus>>]_vars

\* C30 witness: a second flow is in flight, started after the first had
\* ended, and the button is disabled.
C30_Witness ==
    /\ Len(flowLog) = 2
    /\ flowLog[1].ended /= ""
    /\ flowLog[2].ended = ""
    /\ aiBusy
    /\ Disabled(aiBusy)
    /\ dayEv.called

\* an invocation with a blank query went by without a flow
C30_BlankQueryInvoked ==
    /\ dayEv.handler = "addAlternativeExercise"
    /\ ~dayEv.called
    /\ selectedDay /= ""
    /\ flowLog = <<>>

====
